---- MODULE Spec2Model ----
(***************************************************************************)
(* Model of the report-generation pipeline of src/Lead-Score.py: the       *)
(* handler takes a survey payload, substitutes text placeholders and then  *)
(* renders one image per target slide (maturity chart, domain summary,     *)
(* subdomain table + radar chart, recommendations table, support           *)
(* overview).  A Python exception in a step aborts the request.            *)
(*                                                                         *)
(* Strings that Python parses (score texts, numeric strings) are tuples of *)
(* one-character strings, so that split('.') and int() are computed.       *)
(* Labels and advice texts are TLA+ strings; non-ASCII letters of the      *)
(* source are transliterated (Patiëntgericht -> Patientgericht, the en     *)
(* dash in "2–3" -> "-").                                                  *)
(***************************************************************************)
EXTENDS Integers, Sequences, FiniteSets, TLC

VARIABLES
    payload,            \* the JSON payload: field name -> value
    is_json,            \* request.is_json: the Content-Type is JSON
    valid_json,         \* request.get_json() can parse the body
    template,           \* the document at the template store
    num_slides,         \* len(presentation.slides) of the template
    io_fault,           \* the file operation that fails in this request
    presentation,       \* the document being processed, <<>> before the download
    pc,                 \* position of process_lead
    exception,          \* the step that raised, "" if none
    slide_replacements, \* values computed by replace_placeholders
    slide4,             \* maturity chart placed on slide index 3
    slide5,             \* domain summary table placed on slide index 4
    slide6,             \* subdomain table and radar chart on slide index 5
    slide7,             \* recommendations table on slide index 6
    slide8,             \* support overview on slide index 7
    calls,              \* the external calls issued, in order
    temp_file,          \* the temporary file: "none", "saved", "unlinked"
    upload_result,      \* what upload_to_zoho_workdrive returned
    response,           \* <<>> or the HTTP response of the handler
    cell,               \* word wrap: the text of a table cell
    wrapped_lines,      \* word wrap: the lines it is drawn in
    text,               \* clean_text: the argument
    cleaned,            \* clean_text: its results, applied once and twice
    open_figures        \* the figures that pyplot holds open in this process

vars == <<payload, is_json, valid_json, template, num_slides, io_fault, presentation, pc,
          exception, slide_replacements, slide4, slide5, slide6, slide7, slide8,
          calls, temp_file, upload_result, response,
          cell, wrapped_lines, text, cleaned, open_figures>>

(***************************************************************************)
(* Bounds of the model.                                                    *)
(***************************************************************************)
\* at most this many subdomains of a payload deviate from the base payload
MaxVaried == 1
\* Domain_k_Sum values are drawn from -MaxNegativeSum..MaxDomainSum
MaxNegativeSum == 3
MaxDomainSum == 13
\* Total_Sum values of the classification runs are -1..MaxTotalSum
MaxTotalSum == 42
\* a template has 0..MaxSlides slides
MaxSlides == 9
\* a paragraph of a template is made of at most MaxSegments tokens or characters
MaxSegments == 2
\* a cell text has at most MaxWords words
MaxWords == 3
\* a text that is cleaned has at most MaxPieces characters or escapes
\* the figures left open after which the process is given no more requests
MaxOpenFigures == 2
\* subdomain scores run from -1 to MaxScore
MaxScore == 6
MaxPieces == 4

(***************************************************************************)
(* JSON values: a number or a string.                                      *)
(***************************************************************************)
Num(n) == [isStr |-> FALSE, num |-> n, str |-> <<>>]
Str(s) == [isStr |-> TRUE, num |-> 0, str |-> s]

Digits == <<"0", "1", "2", "3", "4", "5", "6", "7", "8", "9">>
IsDigit(c) == \E d \in 1..10 : Digits[d] = c
DigitVal(c) == (CHOOSE d \in 1..10 : Digits[d] = c) - 1
\* the vertical tab '\x0B'
VT == "VT"
IsSpace(c) == c \in {" ", "\t", "\n", "\r", VT}

\* str.strip()
RECURSIVE lstrip(_)
lstrip(s) ==
    IF s # <<>> /\ IsSpace(Head(s)) THEN lstrip(Tail(s)) ELSE s
RECURSIVE rstrip(_)
rstrip(s) ==
    IF s # <<>> /\ IsSpace(s[Len(s)]) THEN rstrip(SubSeq(s, 1, Len(s) - 1)) ELSE s
strip(s) == rstrip(lstrip(s))

\* str.split('.')[0]: the text before the first '.', the whole text if none
RECURSIVE split_dot_0(_)
split_dot_0(s) ==
    IF s = <<>> \/ Head(s) = "." THEN <<>>
    ELSE <<Head(s)>> \o split_dot_0(Tail(s))

RECURSIVE digits_value(_, _)
digits_value(s, acc) ==
    IF s = <<>> THEN acc ELSE digits_value(Tail(s), 10 * acc + DigitVal(Head(s)))

\* int(<str>): surrounding whitespace and one sign are accepted, then one or
\* more decimal digits; anything else raises ValueError
int_of_str(s) ==
    LET t == strip(s)
        neg == t # <<>> /\ Head(t) = "-"
        u == IF t # <<>> /\ Head(t) \in {"-", "+"} THEN Tail(t) ELSE t
        ok == u # <<>> /\ \A i \in 1..Len(u) : IsDigit(u[i])
    IN  [raised |-> ~ok,
         value |-> IF ok THEN (IF neg THEN 0 - digits_value(u, 0) ELSE digits_value(u, 0))
                   ELSE 0]


\* int(<payload value>): a number converts, a string is parsed
py_int(v) ==
    IF v.isStr THEN int_of_str(v.str) ELSE [raised |-> FALSE, value |-> v.num]

\* float(<payload value>); the numbers of the model are integers, and a
\* string of the model is a decimal integer or not a number at all
\* "nan" is a float that no int() converts
py_float(v) ==
    IF v.isStr /\ strip(v.str) = <<"n", "a", "n">>
    THEN [raised |-> FALSE, value |-> 0, nan |-> TRUE]
    ELSE [raised |-> py_int(v).raised, value |-> py_int(v).value, nan |-> FALSE]

RECURSIVE int_to_digits(_)
int_to_digits(n) ==
    IF n < 10 THEN <<Digits[n + 1]>>
    ELSE int_to_digits(n \div 10) \o <<Digits[(n % 10) + 1]>>

\* str(<payload value>)
py_str(v) ==
    IF v.isStr THEN v.str
    ELSE IF v.num < 0 THEN <<"-">> \o int_to_digits(0 - v.num)
    ELSE int_to_digits(v.num)

\* dict.get(key, default)
Get(p, key, default) == IF key \in DOMAIN p THEN p[key] ELSE default

\* a dict in insertion order: a sequence of <<key, value>>; d[key] = value
dict_set(d, key, value) ==
    IF \E i \in 1..Len(d) : d[i][1] = key
    THEN [i \in 1..Len(d) |-> IF d[i][1] = key THEN <<key, value>> ELSE d[i]]
    ELSE Append(d, <<key, value>>)

\* c * n for a one-character string c: empty when n <= 0
RECURSIVE repeat(_, _)
repeat(c, n) == IF n <= 0 THEN <<>> ELSE <<c>> \o repeat(c, n - 1)

(***************************************************************************)
(* Text: str.replace, str.split, str.join, the word wrap of the table      *)
(* renderers and clean_text.  A text is a tuple of one-character strings.  *)
(***************************************************************************)
\* sub in s
contains(s, sub) ==
    \E i \in 1..(Len(s) - Len(sub) + 1) : SubSeq(s, i, i + Len(sub) - 1) = sub

\* s.replace(old, new): the occurrences of old from left to right, none
\* overlapping another; old is never empty in the source
RECURSIVE str_replace(_, _, _)
str_replace(s, old, new) ==
    IF Len(s) < Len(old) THEN s
    ELSE IF SubSeq(s, 1, Len(old)) = old
         THEN new \o str_replace(SubSeq(s, Len(old) + 1, Len(s)), old, new)
         ELSE <<Head(s)>> \o str_replace(Tail(s), old, new)

\* while old in s: s = s.replace(old, new)
RECURSIVE replace_while(_, _, _)
replace_while(s, old, new) ==
    IF contains(s, old) THEN replace_while(str_replace(s, old, new), old, new) ELSE s

\* s.split(c) for a one-character separator c
RECURSIVE split(_, _)
split(s, c) ==
    IF \A i \in 1..Len(s) : s[i] # c THEN <<s>>
    ELSE LET k == CHOOSE i \in 1..Len(s) : s[i] = c /\ \A j \in 1..(i - 1) : s[j] # c
         IN  <<SubSeq(s, 1, k - 1)>> \o split(SubSeq(s, k + 1, Len(s)), c)

\* sep.join(lines)
RECURSIVE join(_, _)
join(lines, sep) ==
    IF lines = <<>> THEN <<>>
    ELSE IF Len(lines) = 1 THEN lines[1]
    ELSE lines[1] \o sep \o join(Tail(lines), sep)

\* the loop "for word in words" of the table renderers from word i on, with a
\* test that lets a line grow as long as the line before the word still fits
RECURSIVE wrap_words_late(_, _, _, _, _)
wrap_words_late(words, width, i, current_line, lines) ==
    IF i > Len(words)
    THEN IF current_line # <<>> THEN Append(lines, current_line) ELSE lines
    ELSE LET word == words[i]
             test_line == IF current_line # <<>>
                          THEN current_line \o <<" ">> \o word ELSE word
         IN  IF Len(current_line) <= width
             THEN wrap_words_late(words, width, i + 1, test_line, lines)
             ELSE wrap_words_late(words, width, i + 1, word,
                      IF current_line # <<>> THEN Append(lines, current_line) ELSE lines)

\* the loop "for word in words" of the table renderers from word i on
RECURSIVE wrap_words(_, _, _, _, _)
wrap_words(words, width, i, current_line, lines) ==
    IF i > Len(words)
    THEN IF current_line # <<>> THEN Append(lines, current_line) ELSE lines
    ELSE LET word == words[i]
             test_line == IF current_line # <<>>
                          THEN current_line \o <<" ">> \o word ELSE word
         IN  IF Len(test_line) <= width
             THEN wrap_words(words, width, i + 1, test_line, lines)
             ELSE wrap_words(words, width, i + 1, word,
                      IF current_line # <<>> THEN Append(lines, current_line) ELSE lines)

\* the lines a cell text is drawn in: wrapped when longer than the width
wrap(s, width) ==
    IF Len(s) > width
    THEN wrap_words(split(s, " "), width, 1, <<>>, <<>>)
    ELSE <<s>>

\* the escaped control characters of clean_text
x000A == <<"_", "x", "0", "0", "0", "A">>
x000D == <<"_", "x", "0", "0", "0", "D">>
x000B == <<"_", "x", "0", "0", "0", "B">>
x0009 == <<"_", "x", "0", "0", "0", "9">>

\* the dict replacements of clean_text in insertion order; the keys
\* '\x0D\x0A' and '\r\n' of the source are one key
clean_replacements ==
    << <<x000A, <<"\n">> >>,
       <<x000D, <<"\r">> >>,
       <<x000B, <<"\n">> >>,
       <<x0009, <<"\t">> >>,
       << <<VT>>, <<"\n">> >>,
       << <<"\r", "\n">>, <<"\n">> >> >>

RECURSIVE replace_each(_, _, _)
replace_each(s, replacements, i) ==
    IF i > Len(replacements) THEN s
    ELSE replace_each(str_replace(s, replacements[i][1], replacements[i][2]),
                      replacements, i + 1)

clean_text(s) ==
    LET collapsed == replace_while(replace_each(s, clean_replacements, 1),
                                 <<"\n", "\n", "\n">>, <<"\n", "\n">>)
        lines == split(collapsed, "\n")
        cleaned_lines == [i \in 1..Len(lines) |->
                             strip(replace_while(lines[i], <<" ", " ">>, <<" ">>))]
    IN  join(cleaned_lines, <<"\n">>)

(***************************************************************************)
(* Scoring and classification.                                             *)
(***************************************************************************)
\* get_transitiefase with the upper limit of the first range excluded
get_transitiefase_excl(total_sum) ==
    LET c == py_int(total_sum)
        t == c.value
    IN  [raised |-> c.raised,
         value |-> IF c.raised THEN ""
                   ELSE IF 0 <= t /\ t < 14 THEN "Startfase"
                   ELSE IF 15 <= t /\ t <= 22 THEN "Aan de slag"
                   ELSE IF 23 <= t /\ t <= 30 THEN "Op de kaart"
                   ELSE IF 31 <= t /\ t <= 36 THEN "In control"
                   ELSE IF 37 <= t /\ t <= 40 THEN "Voorloper"
                   ELSE "Onbekend"]

get_transitiefase(total_sum) ==
    LET c == py_int(total_sum)
        t == c.value
    IN  [raised |-> c.raised,
         value |-> IF c.raised THEN ""
                   ELSE IF 0 <= t /\ t <= 14 THEN "Startfase"
                   ELSE IF 15 <= t /\ t <= 22 THEN "Aan de slag"
                   ELSE IF 23 <= t /\ t <= 30 THEN "Op de kaart"
                   ELSE IF 31 <= t /\ t <= 36 THEN "In control"
                   ELSE IF 37 <= t /\ t <= 40 THEN "Voorloper"
                   ELSE "Onbekend"]

\* int(x) of a float x = h/2: truncation toward zero
trunc_half(h) == IF h >= 0 THEN h \div 2 ELSE 0 - ((0 - h) \div 2)

\* f'{x:.1f}' of a float x = h/2
format_half(h) ==
    LET a == IF h < 0 THEN 0 - h ELSE h
    IN  (IF h < 0 THEN <<"-">> ELSE <<>>) \o int_to_digits(a \div 2)
        \o <<".">> \o (IF a % 2 = 1 THEN <<"5">> ELSE <<"0">>)

\* generate_star_rating with "remainder > 0.5" for the half circle
generate_star_rating_gt(score) ==
    LET normalized_halves == score
        full_circles == trunc_half(normalized_halves)
        remainder_halves == normalized_halves - 2 * full_circles
        half_circle == IF remainder_halves > 1 THEN 1 ELSE 0
        empty_circles == 5 - full_circles - half_circle
    IN  [circles |-> repeat("F", full_circles)
                     \o (IF half_circle = 1 THEN <<"H">> ELSE <<>>)
                     \o repeat("E", empty_circles),
         text |-> <<" ", "(">> \o format_half(normalized_halves) \o <<"/", "5", ")">>]

\* score is an integer-valued float; normalized_score = (score / 10) * 5 is
\* then exactly score / 2 in binary floating point, kept here as the number
\* of halves.  "F" is the filled circle, "H" the half circle, "E" the empty one.
generate_star_rating(score) ==
    LET normalized_halves == score
        full_circles == trunc_half(normalized_halves)
        remainder_halves == normalized_halves - 2 * full_circles
        half_circle == IF remainder_halves >= 1 THEN 1 ELSE 0
        empty_circles == 5 - full_circles - half_circle
    IN  [circles |-> repeat("F", full_circles)
                     \o (IF half_circle = 1 THEN <<"H">> ELSE <<>>)
                     \o repeat("E", empty_circles),
         text |-> <<" ", "(">> \o format_half(normalized_halves) \o <<"/", "5", ")">>]

DomainNames == <<"Governance", "Structuur", "Proces", "Uitkomsten & sturing">>
DomainSumFields == <<"Domain_1_Sum", "Domain_2_Sum", "Domain_3_Sum", "Domain_4_Sum">>

calculate_domain_data(p) ==
    LET f(k) == py_float(Get(p, DomainSumFields[k], Num(0)))
    IN  [raised |-> \E k \in 1..4 : f(k).raised,
         value |-> [k \in 1..4 |->
                      [name |-> DomainNames[k], score |-> f(k).value,
                       nan |-> f(k).nan, index |-> k]]]

\* int(normalized_score) of generate_star_rating raises for a score that is
\* nan, inside create_domain_scores_table after plt.subplots
rating_raises(domain_data) == \E i \in 1..Len(domain_data) : domain_data[i].nan

\* the rows of the domain summary table
create_domain_scores_table(domain_data) ==
    [i \in 1..Len(domain_data) |->
        [index |-> domain_data[i].index,
         name |-> domain_data[i].name,
         score |-> domain_data[i].score,
         rating |-> generate_star_rating(domain_data[i].score)]]

(***************************************************************************)
(* Recommendations table (slide index 6).                                  *)
(***************************************************************************)
rec_field_mapping ==
    << <<"Governance_Q1", "Visie op passende zorg">>,
       <<"Governance_Q2", "Leiderschap en eigenaarschap">>,
       <<"Structuur_Q1", "Regionale samenwerking">>,
       <<"Structuur_Q2", "Tools en platforms">>,
       <<"Proces_Q1", "Patientgericht procesontwerp">>,
       <<"Proces_Q2", "Leren en verbeteren">>,
       <<"Uitkomsten_en_sturing_Q1", "Outcomegericht werken">>,
       <<"Uitkomsten_en_sturing_Q2", "Monitoring en besluitvorming">> >>

rec_numeric_fields ==
    << <<"Structuur_Q1_Numeric", "Regionale samenwerking">>,
       <<"Structuur_Q2_Numeric", "Tools en platforms">>,
       <<"Uitkomsten_en_sturing_Q1_Numeric", "Outcomegericht werken">>,
       <<"Uitkomsten_en_sturing_Q2_Numeric", "Monitoring en besluitvorming">> >>

\* field.endswith('_Numeric'), on the field names of the payload schema
ends_with_Numeric(field) ==
    field \in {"Governance_Q1_Numeric", "Governance_Q2_Numeric",
               "Structuur_Q1_Numeric", "Structuur_Q2_Numeric",
               "Proces_Q1_Numeric", "Proces_Q2_Numeric",
               "Uitkomsten_en_sturing_Q1_Numeric",
               "Uitkomsten_en_sturing_Q2_Numeric"}

\* mapping.items() lookup: the value stored under key, in a sequence of pairs
lookup(mapping, key) ==
    mapping[CHOOSE i \in 1..Len(mapping) : mapping[i][1] = key][2]
has_key(mapping, key) == \E i \in 1..Len(mapping) : mapping[i][1] = key

\* field.replace('_Numeric', ''), on the field names ending in _Numeric
strip_Numeric(field) ==
    lookup(<< <<"Governance_Q1_Numeric", "Governance_Q1">>,
              <<"Governance_Q2_Numeric", "Governance_Q2">>,
              <<"Structuur_Q1_Numeric", "Structuur_Q1">>,
              <<"Structuur_Q2_Numeric", "Structuur_Q2">>,
              <<"Proces_Q1_Numeric", "Proces_Q1">>,
              <<"Proces_Q2_Numeric", "Proces_Q2">>,
              <<"Uitkomsten_en_sturing_Q1_Numeric", "Uitkomsten_en_sturing_Q1">>,
              <<"Uitkomsten_en_sturing_Q2_Numeric", "Uitkomsten_en_sturing_Q2">> >>,
           field)

\* the loop "for field, subdomain in field_mapping.items()" of the
\* recommendations renderer, from item i on; acc = [raised, scores]
RECURSIVE rec_text_scores(_, _, _)
rec_text_scores(p, i, acc) ==
    IF acc.raised \/ i > Len(rec_field_mapping) THEN acc
    ELSE LET field == rec_field_mapping[i][1]
             subdomain == rec_field_mapping[i][2]
         IN  IF field \notin DOMAIN p THEN rec_text_scores(p, i + 1, acc)
             ELSE LET score_text == p[field]
                  IN  IF score_text.isStr /\ strip(score_text.str) # <<>>
                      THEN LET score == int_of_str(split_dot_0(score_text.str))
                           IN  IF score.raised
                               THEN [raised |-> TRUE, scores |-> acc.scores]
                               ELSE rec_text_scores(p, i + 1,
                                        [raised |-> FALSE,
                                         scores |-> dict_set(acc.scores, subdomain, score.value)])
                      ELSE IF ends_with_Numeric(field)
                              /\ has_key(rec_field_mapping, strip_Numeric(field))
                      THEN LET score == py_int(p[field])
                           IN  IF score.raised
                               THEN [raised |-> TRUE, scores |-> acc.scores]
                               ELSE rec_text_scores(p, i + 1,
                                        [raised |-> FALSE,
                                         scores |-> dict_set(acc.scores,
                                             lookup(rec_field_mapping, strip_Numeric(field)),
                                             score.value)])
                      ELSE rec_text_scores(p, i + 1, acc)

\* the loop "for field, subdomain in numeric_fields.items()", shared by the
\* recommendations renderer and the support overview
RECURSIVE numeric_scores(_, _, _, _)
numeric_scores(p, numeric_fields, i, acc) ==
    IF acc.raised \/ i > Len(numeric_fields) THEN acc
    ELSE LET field == numeric_fields[i][1]
             subdomain == numeric_fields[i][2]
         IN  IF field \notin DOMAIN p THEN numeric_scores(p, numeric_fields, i + 1, acc)
             ELSE LET score == py_int(p[field])
                  IN  IF score.raised
                      THEN [raised |-> TRUE, scores |-> acc.scores]
                      ELSE numeric_scores(p, numeric_fields, i + 1,
                               [raised |-> FALSE,
                                scores |-> dict_set(acc.scores, subdomain, score.value)])

\* subdomain_scores of create_concrete_recommendations_report
rec_subdomain_scores(p) ==
    numeric_scores(p, rec_numeric_fields, 1,
        rec_text_scores(p, 1, [raised |-> FALSE, scores |-> <<>>]))

advice_mapping ==
    (<<"Visie op passende zorg", 1>> :>
        [advice |-> "Faciliteer een visie- en inspiratiesessie met stakeholders.",
         support |-> "Startsessie of training: visie, netwerk of dashboard opzetten.",
         support_type |-> "Training"])
 @@ (<<"Visie op passende zorg", 2>> :>
        [advice |-> "Vertaal losse ideeen naar een eerste conceptvisie.",
         support |-> "Co-creatie workshop: structuur of pilotplan uitwerken.",
         support_type |-> "Workshop"])
 @@ (<<"Visie op passende zorg", 3>> :>
        [advice |-> "Verscherp visie en koppel concrete doelen en termijnen.",
         support |-> "Consultancy: concretiseer aanpak en borg werkwijze.",
         support_type |-> "Consultancy"])
 @@ (<<"Leiderschap en eigenaarschap", 1>> :>
        [advice |-> "Benoem een bestuurlijk ambassadeur voor passende zorg.",
         support |-> "Startsessie of training: visie, netwerk of dashboard opzetten.",
         support_type |-> "Training"])
 @@ (<<"Leiderschap en eigenaarschap", 2>> :>
        [advice |-> "Betrek bestuur actief bij voortgang en beslismomenten.",
         support |-> "Co-creatie workshop: structuur of pilotplan uitwerken.",
         support_type |-> "Workshop"])
 @@ (<<"Leiderschap en eigenaarschap", 3>> :>
        [advice |-> "Geef bestuur formele rol in governance.",
         support |-> "Consultancy: concretiseer aanpak en borg werkwijze.",
         support_type |-> "Consultancy"])
 @@ (<<"Regionale samenwerking", 1>> :>
        [advice |-> "Breng partners in kaart en start eerste verkenningsgesprekken.",
         support |-> "Startsessie of training: visie, netwerk of dashboard opzetten.",
         support_type |-> "Training"])
 @@ (<<"Regionale samenwerking", 2>> :>
        [advice |-> "Organiseer maandelijks thematisch netwerkoverleg.",
         support |-> "Co-creatie workshop: structuur of pilotplan uitwerken.",
         support_type |-> "Workshop"])
 @@ (<<"Regionale samenwerking", 3>> :>
        [advice |-> "Versterk met gezamenlijke doelen en actielijst.",
         support |-> "Consultancy: concretiseer aanpak en borg werkwijze.",
         support_type |-> "Consultancy"])
 @@ (<<"Tools en platforms", 1>> :>
        [advice |-> "Start met gedeelde mappen of formats.",
         support |-> "Startsessie of training: visie, netwerk of dashboard opzetten.",
         support_type |-> "Training"])
 @@ (<<"Tools en platforms", 2>> :>
        [advice |-> "Verken dashboard-tools of Zoho/PowerBI.",
         support |-> "Co-creatie workshop: structuur of pilotplan uitwerken.",
         support_type |-> "Workshop"])
 @@ (<<"Tools en platforms", 3>> :>
        [advice |-> "Versnel ontwikkeling en test actief met gebruikers.",
         support |-> "Consultancy: concretiseer aanpak en borg werkwijze.",
         support_type |-> "Consultancy"])
 @@ (<<"Patientgericht procesontwerp", 1>> :>
        [advice |-> "Visualiseer de patientreis met team of patientpanel.",
         support |-> "Startsessie of training: visie, netwerk of dashboard opzetten.",
         support_type |-> "Training"])
 @@ (<<"Patientgericht procesontwerp", 2>> :>
        [advice |-> "Evalueer pilots en werk verbeterideeen verder uit.",
         support |-> "Co-creatie workshop: structuur of pilotplan uitwerken.",
         support_type |-> "Workshop"])
 @@ (<<"Patientgericht procesontwerp", 3>> :>
        [advice |-> "Standaardiseer het proces en monitor op resultaat.",
         support |-> "Consultancy: concretiseer aanpak en borg werkwijze.",
         support_type |-> "Consultancy"])
 @@ (<<"Leren en verbeteren", 1>> :>
        [advice |-> "Start met reflectie- of verbetermomenten per kwartaal.",
         support |-> "Startsessie of training: visie, netwerk of dashboard opzetten.",
         support_type |-> "Training"])
 @@ (<<"Leren en verbeteren", 2>> :>
        [advice |-> "Implementeer eenvoudige PDCA-cyclus op teamniveau.",
         support |-> "Co-creatie workshop: structuur of pilotplan uitwerken.",
         support_type |-> "Workshop"])
 @@ (<<"Leren en verbeteren", 3>> :>
        [advice |-> "Borg deze in overleggen en dashboards.",
         support |-> "Consultancy: concretiseer aanpak en borg werkwijze.",
         support_type |-> "Consultancy"])
 @@ (<<"Outcomegericht werken", 1>> :>
        [advice |-> "Definieer 2-3 relevante uitkomstindicatoren.",
         support |-> "Startsessie of training: visie, netwerk of dashboard opzetten.",
         support_type |-> "Training"])
 @@ (<<"Outcomegericht werken", 2>> :>
        [advice |-> "Maak ze zichtbaar in teamoverleg of dashboard.",
         support |-> "Co-creatie workshop: structuur of pilotplan uitwerken.",
         support_type |-> "Workshop"])
 @@ (<<"Outcomegericht werken", 3>> :>
        [advice |-> "Koppel outcome aan proces- en beslisinformatie.",
         support |-> "Consultancy: concretiseer aanpak en borg werkwijze.",
         support_type |-> "Consultancy"])
 @@ (<<"Monitoring en besluitvorming", 1>> :>
        [advice |-> "Start met een maandelijks stuurmoment.",
         support |-> "Startsessie of training: visie, netwerk of dashboard opzetten.",
         support_type |-> "Training"])
 @@ (<<"Monitoring en besluitvorming", 2>> :>
        [advice |-> "Introduceer KPI-dashboard met kwartaalupdate.",
         support |-> "Co-creatie workshop: structuur of pilotplan uitwerken.",
         support_type |-> "Workshop"])
 @@ (<<"Monitoring en besluitvorming", 3>> :>
        [advice |-> "Train teams in gebruik en interpretatie.",
         support |-> "Consultancy: concretiseer aanpak en borg werkwijze.",
         support_type |-> "Consultancy"])

\* support_mapping with the key of one entry mistyped (score 3 -> 4)
support_mapping_typo ==
    (<<"Visie op passende zorg", 1>> :>
        [support_type |-> "Training",
         description |-> "Startsessie of training: visie, netwerk of dashboard opzetten."])
 @@ (<<"Visie op passende zorg", 2>> :>
        [support_type |-> "Workshop",
         description |-> "Co-creatie workshop: structuur of pilotplan uitwerken."])
 @@ (<<"Visie op passende zorg", 3>> :>
        [support_type |-> "Consultancy",
         description |-> "Consultancy: concretiseer aanpak en borg werkwijze."])
 @@ (<<"Leiderschap en eigenaarschap", 1>> :>
        [support_type |-> "Training",
         description |-> "Startsessie of training: visie, netwerk of dashboard opzetten."])
 @@ (<<"Leiderschap en eigenaarschap", 2>> :>
        [support_type |-> "Workshop",
         description |-> "Co-creatie workshop: structuur of pilotplan uitwerken."])
 @@ (<<"Leiderschap en eigenaarschap", 3>> :>
        [support_type |-> "Consultancy",
         description |-> "Consultancy: concretiseer aanpak en borg werkwijze."])
 @@ (<<"Regionale samenwerking", 1>> :>
        [support_type |-> "Training",
         description |-> "Startsessie of training: visie, netwerk of dashboard opzetten."])
 @@ (<<"Regionale samenwerking", 2>> :>
        [support_type |-> "Workshop",
         description |-> "Co-creatie workshop: structuur of pilotplan uitwerken."])
 @@ (<<"Regionale samenwerking", 3>> :>
        [support_type |-> "Consultancy",
         description |-> "Consultancy: concretiseer aanpak en borg werkwijze."])
 @@ (<<"Tools en platforms", 1>> :>
        [support_type |-> "Training",
         description |-> "Startsessie of training: visie, netwerk of dashboard opzetten."])
 @@ (<<"Tools en platforms", 2>> :>
        [support_type |-> "Workshop",
         description |-> "Co-creatie workshop: structuur of pilotplan uitwerken."])
 @@ (<<"Tools en platforms", 4>> :>
        [support_type |-> "Consultancy",
         description |-> "Consultancy: concretiseer aanpak en borg werkwijze."])
 @@ (<<"Patientgericht procesontwerp", 1>> :>
        [support_type |-> "Training",
         description |-> "Startsessie of training: visie, netwerk of dashboard opzetten."])
 @@ (<<"Patientgericht procesontwerp", 2>> :>
        [support_type |-> "Workshop",
         description |-> "Co-creatie workshop: structuur of pilotplan uitwerken."])
 @@ (<<"Patientgericht procesontwerp", 3>> :>
        [support_type |-> "Consultancy",
         description |-> "Consultancy: concretiseer aanpak en borg werkwijze."])
 @@ (<<"Leren en verbeteren", 1>> :>
        [support_type |-> "Training",
         description |-> "Startsessie of training: visie, netwerk of dashboard opzetten."])
 @@ (<<"Leren en verbeteren", 2>> :>
        [support_type |-> "Workshop",
         description |-> "Co-creatie workshop: structuur of pilotplan uitwerken."])
 @@ (<<"Leren en verbeteren", 3>> :>
        [support_type |-> "Consultancy",
         description |-> "Consultancy: concretiseer aanpak en borg werkwijze."])
 @@ (<<"Outcomegericht werken", 1>> :>
        [support_type |-> "Training",
         description |-> "Startsessie of training: visie, netwerk of dashboard opzetten."])
 @@ (<<"Outcomegericht werken", 2>> :>
        [support_type |-> "Workshop",
         description |-> "Co-creatie workshop: structuur of pilotplan uitwerken."])
 @@ (<<"Outcomegericht werken", 3>> :>
        [support_type |-> "Consultancy",
         description |-> "Consultancy: concretiseer aanpak en borg werkwijze."])
 @@ (<<"Monitoring en besluitvorming", 1>> :>
        [support_type |-> "Training",
         description |-> "Startsessie of training: visie, netwerk of dashboard opzetten."])
 @@ (<<"Monitoring en besluitvorming", 2>> :>
        [support_type |-> "Workshop",
         description |-> "Co-creatie workshop: structuur of pilotplan uitwerken."])
 @@ (<<"Monitoring en besluitvorming", 3>> :>
        [support_type |-> "Consultancy",
         description |-> "Consultancy: concretiseer aanpak en borg werkwijze."])

support_mapping ==
    (<<"Visie op passende zorg", 1>> :>
        [support_type |-> "Training",
         description |-> "Startsessie of training: visie, netwerk of dashboard opzetten."])
 @@ (<<"Visie op passende zorg", 2>> :>
        [support_type |-> "Workshop",
         description |-> "Co-creatie workshop: structuur of pilotplan uitwerken."])
 @@ (<<"Visie op passende zorg", 3>> :>
        [support_type |-> "Consultancy",
         description |-> "Consultancy: concretiseer aanpak en borg werkwijze."])
 @@ (<<"Leiderschap en eigenaarschap", 1>> :>
        [support_type |-> "Training",
         description |-> "Startsessie of training: visie, netwerk of dashboard opzetten."])
 @@ (<<"Leiderschap en eigenaarschap", 2>> :>
        [support_type |-> "Workshop",
         description |-> "Co-creatie workshop: structuur of pilotplan uitwerken."])
 @@ (<<"Leiderschap en eigenaarschap", 3>> :>
        [support_type |-> "Consultancy",
         description |-> "Consultancy: concretiseer aanpak en borg werkwijze."])
 @@ (<<"Regionale samenwerking", 1>> :>
        [support_type |-> "Training",
         description |-> "Startsessie of training: visie, netwerk of dashboard opzetten."])
 @@ (<<"Regionale samenwerking", 2>> :>
        [support_type |-> "Workshop",
         description |-> "Co-creatie workshop: structuur of pilotplan uitwerken."])
 @@ (<<"Regionale samenwerking", 3>> :>
        [support_type |-> "Consultancy",
         description |-> "Consultancy: concretiseer aanpak en borg werkwijze."])
 @@ (<<"Tools en platforms", 1>> :>
        [support_type |-> "Training",
         description |-> "Startsessie of training: visie, netwerk of dashboard opzetten."])
 @@ (<<"Tools en platforms", 2>> :>
        [support_type |-> "Workshop",
         description |-> "Co-creatie workshop: structuur of pilotplan uitwerken."])
 @@ (<<"Tools en platforms", 3>> :>
        [support_type |-> "Consultancy",
         description |-> "Consultancy: concretiseer aanpak en borg werkwijze."])
 @@ (<<"Patientgericht procesontwerp", 1>> :>
        [support_type |-> "Training",
         description |-> "Startsessie of training: visie, netwerk of dashboard opzetten."])
 @@ (<<"Patientgericht procesontwerp", 2>> :>
        [support_type |-> "Workshop",
         description |-> "Co-creatie workshop: structuur of pilotplan uitwerken."])
 @@ (<<"Patientgericht procesontwerp", 3>> :>
        [support_type |-> "Consultancy",
         description |-> "Consultancy: concretiseer aanpak en borg werkwijze."])
 @@ (<<"Leren en verbeteren", 1>> :>
        [support_type |-> "Training",
         description |-> "Startsessie of training: visie, netwerk of dashboard opzetten."])
 @@ (<<"Leren en verbeteren", 2>> :>
        [support_type |-> "Workshop",
         description |-> "Co-creatie workshop: structuur of pilotplan uitwerken."])
 @@ (<<"Leren en verbeteren", 3>> :>
        [support_type |-> "Consultancy",
         description |-> "Consultancy: concretiseer aanpak en borg werkwijze."])
 @@ (<<"Outcomegericht werken", 1>> :>
        [support_type |-> "Training",
         description |-> "Startsessie of training: visie, netwerk of dashboard opzetten."])
 @@ (<<"Outcomegericht werken", 2>> :>
        [support_type |-> "Workshop",
         description |-> "Co-creatie workshop: structuur of pilotplan uitwerken."])
 @@ (<<"Outcomegericht werken", 3>> :>
        [support_type |-> "Consultancy",
         description |-> "Consultancy: concretiseer aanpak en borg werkwijze."])
 @@ (<<"Monitoring en besluitvorming", 1>> :>
        [support_type |-> "Training",
         description |-> "Startsessie of training: visie, netwerk of dashboard opzetten."])
 @@ (<<"Monitoring en besluitvorming", 2>> :>
        [support_type |-> "Workshop",
         description |-> "Co-creatie workshop: structuur of pilotplan uitwerken."])
 @@ (<<"Monitoring en besluitvorming", 3>> :>
        [support_type |-> "Consultancy",
         description |-> "Consultancy: concretiseer aanpak en borg werkwijze."])

domain_mapping ==
    << <<"Visie op passende zorg", "Governance">>,
       <<"Leiderschap en eigenaarschap", "Governance">>,
       <<"Regionale samenwerking", "Structuur">>,
       <<"Tools en platforms", "Structuur">>,
       <<"Patientgericht procesontwerp", "Proces">>,
       <<"Leren en verbeteren", "Proces">>,
       <<"Outcomegericht werken", "Uitkomsten & sturing">>,
       <<"Monitoring en besluitvorming", "Uitkomsten & sturing">> >>

\* rec_filter with the filter "score < 3"
RECURSIVE rec_filter_lt(_, _)
rec_filter_lt(scores, i) ==
    IF i > Len(scores) THEN <<>>
    ELSE LET subdomain == scores[i][1]
             score == scores[i][2]
         IN  (IF score < 3 /\ <<subdomain, score>> \in DOMAIN advice_mapping
              THEN << [subdomain |-> subdomain,
                       domain |-> IF has_key(domain_mapping, subdomain)
                                  THEN lookup(domain_mapping, subdomain) ELSE "",
                       score |-> score,
                       advice |-> advice_mapping[<<subdomain, score>>].advice,
                       support |-> advice_mapping[<<subdomain, score>>].support,
                       support_type |-> advice_mapping[<<subdomain, score>>].support_type] >>
              ELSE <<>>)
             \o rec_filter_lt(scores, i + 1)

\* score_colors of the recommendations table: the background of the score
\* cell; colors are written in lower case, #DC3545 and #dc3545 being one color
rec_score_colors == (1 :> "#dc3545") @@ (2 :> "#ff6b6b") @@ (3 :> "#ff8c00")

\* the loop that filters subdomain_scores into recommendations, from item i
RECURSIVE rec_filter(_, _)
rec_filter(scores, i) ==
    IF i > Len(scores) THEN <<>>
    ELSE LET subdomain == scores[i][1]
             score == scores[i][2]
         IN  (IF score <= 3 /\ <<subdomain, score>> \in DOMAIN advice_mapping
              THEN << [subdomain |-> subdomain,
                       domain |-> IF has_key(domain_mapping, subdomain)
                                  THEN lookup(domain_mapping, subdomain) ELSE "",
                       score |-> score,
                       advice |-> advice_mapping[<<subdomain, score>>].advice,
                       support |-> advice_mapping[<<subdomain, score>>].support,
                       support_type |-> advice_mapping[<<subdomain, score>>].support_type] >>
              ELSE <<>>)
             \o rec_filter(scores, i + 1)

\* what the recommendations image shows: the congratulatory message or the
\* data rows (full_name and organization are stored with a row, not drawn)
create_concrete_recommendations_report(p) ==
    LET s == rec_subdomain_scores(p)
        recommendations == IF s.raised THEN <<>> ELSE rec_filter(s.scores, 1)
    IN  [raised |-> s.raised,
         rendered |-> ~s.raised,
         fallback |-> ~s.raised /\ recommendations = <<>>,
         rows |-> recommendations]

(***************************************************************************)
(* Support overview (slide index 7).                                       *)
(***************************************************************************)
sup_field_mapping ==
    << <<"Governance_Q1", "Visie op passende zorg">>,
       <<"Governance_Q2", "Leiderschap en eigenaarschap">>,
       <<"Structuur_Q1", "Regionale samenwerking">>,
       <<"Structuur_Q2", "Tools en platforms">>,
       <<"Proces_Q1", "Patientgericht procesontwerp">>,
       <<"Proces_Q2", "Leren en verbeteren">>,
       <<"Uitkomsten_en_sturing_Q1", "Outcomegericht werken">>,
       <<"Uitkomsten_en_sturing_Q2", "Monitoring en besluitvorming">> >>

sup_numeric_fields ==
    << <<"Governance_Q1_Numeric", "Visie op passende zorg">>,
       <<"Governance_Q2_Numeric", "Leiderschap en eigenaarschap">>,
       <<"Structuur_Q1_Numeric", "Regionale samenwerking">>,
       <<"Structuur_Q2_Numeric", "Tools en platforms">>,
       <<"Proces_Q1_Numeric", "Patientgericht procesontwerp">>,
       <<"Proces_Q2_Numeric", "Leren en verbeteren">>,
       <<"Uitkomsten_en_sturing_Q1_Numeric", "Outcomegericht werken">>,
       <<"Uitkomsten_en_sturing_Q2_Numeric", "Monitoring en besluitvorming">> >>

\* the loop "for field, subdomain in field_mapping.items()" of the support
\* overview, from item i on
RECURSIVE sup_text_scores(_, _, _)
sup_text_scores(p, i, acc) ==
    IF acc.raised \/ i > Len(sup_field_mapping) THEN acc
    ELSE LET field == sup_field_mapping[i][1]
             subdomain == sup_field_mapping[i][2]
         IN  IF field \notin DOMAIN p THEN sup_text_scores(p, i + 1, acc)
             ELSE LET score_text == p[field]
                  IN  IF score_text.isStr /\ strip(score_text.str) # <<>>
                      THEN LET score == int_of_str(split_dot_0(score_text.str))
                           IN  IF score.raised
                               THEN [raised |-> TRUE, scores |-> acc.scores]
                               ELSE sup_text_scores(p, i + 1,
                                        [raised |-> FALSE,
                                         scores |-> dict_set(acc.scores, subdomain, score.value)])
                      ELSE sup_text_scores(p, i + 1, acc)

\* subdomain_scores of create_support_overview_report
sup_subdomain_scores(p) ==
    numeric_scores(p, sup_numeric_fields, 1,
        sup_text_scores(p, 1, [raised |-> FALSE, scores |-> <<>>]))

\* the loop that filters subdomain_scores into support_recommendations
RECURSIVE sup_filter(_, _)
sup_filter(scores, i) ==
    IF i > Len(scores) THEN <<>>
    ELSE LET subdomain == scores[i][1]
             score == scores[i][2]
         IN  (IF score <= 3 /\ <<subdomain, score>> \in DOMAIN support_mapping
              THEN << [subdomain |-> subdomain,
                       support_type |-> support_mapping[<<subdomain, score>>].support_type,
                       description |-> support_mapping[<<subdomain, score>>].description,
                       score |-> score] >>
              ELSE <<>>)
             \o sup_filter(scores, i + 1)

\* score_colors of the support overview
sup_score_colors == (1 :> "#dc3545") @@ (2 :> "#ff6b6b") @@ (3 :> "#ff8c00")

create_support_overview_report(p) ==
    LET s == sup_subdomain_scores(p)
        support_recommendations == IF s.raised THEN <<>> ELSE sup_filter(s.scores, 1)
    IN  [raised |-> s.raised,
         rendered |-> ~s.raised,
         fallback |-> ~s.raised /\ support_recommendations = <<>>,
         rows |-> support_recommendations]

(***************************************************************************)
(* Maturity chart (slide index 3).                                         *)
(***************************************************************************)
breakdown_field_mapping ==
    << <<"Governance_Q1_Numeric", "Governance", "Visie op passende zorg">>,
       <<"Governance_Q2_Numeric", "Governance", "Leiderschap en eigenaarschap">>,
       <<"Structuur_Q1_Numeric", "Structuur", "Regionale samenwerking">>,
       <<"Structuur_Q2_Numeric", "Structuur", "Tools en platforms">>,
       <<"Proces_Q1_Numeric", "Proces", "Patientgericht procesontwerp">>,
       <<"Proces_Q2_Numeric", "Proces", "Leren en verbeteren">>,
       <<"Uitkomsten_en_sturing_Q1_Numeric", "Uitkomsten & sturing", "Outcomegericht werken">>,
       <<"Uitkomsten_en_sturing_Q2_Numeric", "Uitkomsten & sturing", "Monitoring en besluitvorming">> >>

\* the loop that sums the scores present in the payload, from item i on;
\* subdomain_scores is kept as the list of <<domain, subdomain, score>>
RECURSIVE breakdown_scores(_, _, _)
breakdown_scores(p, i, acc) ==
    IF acc.raised \/ i > Len(breakdown_field_mapping) THEN acc
    ELSE LET field == breakdown_field_mapping[i][1]
         IN  IF field \notin DOMAIN p THEN breakdown_scores(p, i + 1, acc)
             ELSE LET score == py_int(p[field])
                  IN  IF score.raised
                      THEN [acc EXCEPT !.raised = TRUE]
                      ELSE breakdown_scores(p, i + 1,
                               [raised |-> FALSE,
                                total_score |-> acc.total_score + score.value,
                                subdomain_scores |-> Append(acc.subdomain_scores,
                                    <<breakdown_field_mapping[i][2],
                                      breakdown_field_mapping[i][3], score.value>>)])

\* score_color of the badge of a subdomain row in the left pane
score_color(score) ==
    IF score >= 4 THEN "#2e7d32"
    ELSE IF score >= 3 THEN "#689f38"
    ELSE IF score >= 2 THEN "#ff8f00"
    ELSE "#d32f2f"

\* index (from 0) of the phase bar that is highlighted
current_phase_idx(total_score) ==
    IF total_score >= 37 THEN 4
    ELSE IF total_score >= 31 THEN 3
    ELSE IF total_score >= 23 THEN 2
    ELSE IF total_score >= 15 THEN 1
    ELSE 0

score_phases ==
    <<"Startfase", "Aan de slag", "Op de kaart", "In control", "Voorloper">>

create_score_breakdown_chart(p) ==
    LET s == breakdown_scores(p, 1,
                 [raised |-> FALSE, total_score |-> 0, subdomain_scores |-> <<>>])
        idx == current_phase_idx(s.total_score)
    IN  [raised |-> s.raised,
         rendered |-> ~s.raised,
         total_score |-> s.total_score,
         subdomain_scores |-> s.subdomain_scores,
         highlighted |-> {i \in 0..4 : i = idx},
         status_name |-> score_phases[idx + 1],
         bold_focus |-> {i \in 0..4 : i = idx}]

(***************************************************************************)
(* Subdomain table and radar chart (slide index 5).                        *)
(***************************************************************************)
get_score_color(score) ==
    IF score = 1 THEN "#dc3545"
    ELSE IF score = 2 THEN "#fd7e8a"
    ELSE IF score = 3 THEN "#ffc107"
    ELSE IF score = 4 THEN "#90ee90"
    ELSE IF score = 5 THEN "#28a745"
    ELSE "#6c757d"

subdomain_data ==
    << [domain |-> "Governance", subdomain |-> "Visie op passende zorg",
        numeric_field |-> "Governance_Q1_Numeric", question_field |-> "Governance_Q1"],
       [domain |-> "Governance", subdomain |-> "Leiderschap en eigenaarschap",
        numeric_field |-> "Governance_Q2_Numeric", question_field |-> "Governance_Q2"],
       [domain |-> "Structuur", subdomain |-> "Regionale samenwerking",
        numeric_field |-> "Structuur_Q1_Numeric", question_field |-> "Structuur_Q1"],
       [domain |-> "Structuur", subdomain |-> "Tools en platforms",
        numeric_field |-> "Structuur_Q2_Numeric", question_field |-> "Structuur_Q2"],
       [domain |-> "Proces", subdomain |-> "Patientgericht procesontwerp",
        numeric_field |-> "Proces_Q1_Numeric", question_field |-> "Proces_Q1"],
       [domain |-> "Proces", subdomain |-> "Leren en verbeteren",
        numeric_field |-> "Proces_Q2_Numeric", question_field |-> "Proces_Q2"],
       [domain |-> "Uitkomsten & sturing", subdomain |-> "Outcomegericht werken",
        numeric_field |-> "Uitkomsten_en_sturing_Q1_Numeric",
        question_field |-> "Uitkomsten_en_sturing_Q1"],
       [domain |-> "Uitkomsten & sturing", subdomain |-> "Monitoring en besluitvorming",
        numeric_field |-> "Uitkomsten_en_sturing_Q2_Numeric",
        question_field |-> "Uitkomsten_en_sturing_Q2"] >>

create_domain_subdomain_report(p) ==
    LET score(i) == py_int(Get(p, subdomain_data[i].numeric_field, Num(0)))
    IN  [raised |-> \E i \in 1..8 : score(i).raised,
         rows |-> [i \in 1..8 |->
                     [domain |-> subdomain_data[i].domain,
                      subdomain |-> subdomain_data[i].subdomain,
                      score |-> score(i).value,
                      color |-> get_score_color(score(i).value)]]]

spider_labels ==
    <<"Visie op passende zorg", "Leiderschap en eigenaarschap",
      "Regionale samenwerking", "Tools en platforms",
      "Patientgericht procesontwerp", "Leren en verbeteren",
      "Sturing op uitkomsten", "Datagebruik in besluitvorming">>

create_spider_chart_report(p) ==
    LET score(i) == py_int(Get(p, subdomain_data[i].numeric_field, Num(0)))
    IN  [raised |-> \E i \in 1..8 : score(i).raised,
         axes |-> [i \in 1..8 |->
                     [subdomain |-> spider_labels[i], score |-> score(i).value]]]

(***************************************************************************)
(* Text placeholder values.                                                *)
(***************************************************************************)
keywords ==
    << <<"Governance_Q1_Numeric", "Visie">>,
       <<"Governance_Q2_Numeric", "Leiderschap">>,
       <<"Structuur_Q1_Numeric", "Samenwerking">>,
       <<"Structuur_Q2_Numeric", "Tools">>,
       <<"Proces_Q1_Numeric", "Patientgericht">>,
       <<"Proces_Q2_Numeric", "Leren">>,
       <<"Uitkomsten_en_sturing_Q1_Numeric", "Uitkomsten">>,
       <<"Uitkomsten_en_sturing_Q2_Numeric", "Data">> >>

\* low_scoring with the scores 1, 2 and 3 taken as low
RECURSIVE low_scoring_three(_, _, _)
low_scoring_three(p, i, acc) ==
    IF acc.raised \/ i > Len(keywords) THEN acc
    ELSE LET score == py_int(Get(p, keywords[i][1], Num(0)))
         IN  IF score.raised THEN [acc EXCEPT !.raised = TRUE]
             ELSE low_scoring_three(p, i + 1,
                      [raised |-> FALSE,
                       value |-> IF score.value \in {1, 2, 3}
                                 THEN Append(acc.value, <<keywords[i][2], score.value>>)
                                 ELSE acc.value])

\* low_scoring after the loop over keywords, from item i on: the list of
\* <<keyword, score>> that are formatted as "<keyword>: <score>"
RECURSIVE low_scoring(_, _, _)
low_scoring(p, i, acc) ==
    IF acc.raised \/ i > Len(keywords) THEN acc
    ELSE LET score == py_int(Get(p, keywords[i][1], Num(0)))
         IN  IF score.raised THEN [acc EXCEPT !.raised = TRUE]
             ELSE low_scoring(p, i + 1,
                      [raised |-> FALSE,
                       value |-> IF score.value \in {1, 2}
                                 THEN Append(acc.value, <<keywords[i][2], score.value>>)
                                 ELSE acc.value])

\* ", ".join(...) is kept as the list of entries; the empty list stands for
\* the text "Geen lage scores"
get_lowest_scoring_domains(p) ==
    low_scoring(p, 1, [raised |-> FALSE, value |-> <<>>])

\* datetime.now().strftime('%d-%m-%Y') of the day the request is handled
report_date == <<"0", "5", "-", "1", "1", "-", "2", "0", "2", "6">>

NoReplacements ==
    [computed |-> FALSE, organisatie |-> Str(<<>>), rapport_datum |-> <<>>,
     respondent_naam |-> <<>>, totaalscore |-> <<>>, transitiefase_naam |-> "",
     transitiefase |-> "", laagst_scorende_domein |-> <<>>]

\* the replacement values that replace_placeholders prepares
replacement_values(p) ==
    LET organization == Get(p, "Organization", Str(<<>>))
        first_name == Get(p, "First_Name", Str(<<>>))
        last_name == Get(p, "Last_Name", Str(<<>>))
        respondent_name == strip(py_str(first_name) \o <<" ">> \o py_str(last_name))
        total_sum == Get(p, "Total_Sum", Str(<<"0">>))
        transitiefase_value == get_transitiefase(total_sum)
        lowest_domains == get_lowest_scoring_domains(p)
    IN  [raised |-> transitiefase_value.raised \/ lowest_domains.raised,
         value |-> [computed |-> TRUE,
                    organisatie |-> organization,
                    rapport_datum |-> report_date,
                    respondent_naam |-> respondent_name,
                    totaalscore |-> py_str(total_sum),
                    transitiefase_naam |-> transitiefase_value.value,
                    transitiefase |-> transitiefase_value.value,
                    laagst_scorende_domein |-> lowest_domains.value]]

(***************************************************************************)
(* The document: a presentation is a tuple of slides, a slide has a        *)
(* slide_id and a tuple of shapes, a text frame has paragraphs, a          *)
(* paragraph is a tuple of runs.  Lengths are EMU, as in python-pptx.      *)
(***************************************************************************)
NoFont ==
    [name |-> "None", size |-> "None", bold |-> "None", italic |-> "None",
     color |-> "None"]
Run(s, font) == [text |-> s, font |-> font]

text_frame(paragraphs) ==
    [kind |-> "text_frame", paragraphs |-> paragraphs, image |-> "",
     left |-> 0, top |-> 0, width |-> 0, height |-> 0]
\* a shape with neither text_frame nor text (a picture or a table of the template)
graphic_frame ==
    [kind |-> "graphic_frame", paragraphs |-> <<>>, image |-> "",
     left |-> 0, top |-> 0, width |-> 0, height |-> 0]
Picture(image, left, top, width, height) ==
    [kind |-> "picture", paragraphs |-> <<>>, image |-> image,
     left |-> left, top |-> top, width |-> width, height |-> height]

\* Inches(h / 100): int(inches * 914400), h in hundredths of an inch
Inches(h) ==
    IF h >= 0 THEN (h * 914400) \div 100 ELSE 0 - (((0 - h) * 914400) \div 100)

\* presentation.slides[slide_index].shapes.add_picture(...)
add_picture(prs, slide_index, picture) ==
    [prs EXCEPT ![slide_index + 1].shapes = Append(@, picture)]

\* paragraph.text: the texts of the runs in order
RECURSIVE paragraph_text(_)
paragraph_text(runs) ==
    IF runs = <<>> THEN <<>> ELSE Head(runs).text \o paragraph_text(Tail(runs))

\* the placeholder tokens
organisatie ==
    <<"{", "{", "o", "r", "g", "a", "n", "i", "s", "a", "t", "i", "e", "}", "}">>
rapport_datum ==
    <<"{", "{", "r", "a", "p", "p", "o", "r", "t", "_", "d", "a", "t", "u", "m",
      "}", "}">>
respondent_naam ==
    <<"{", "{", "r", "e", "s", "p", "o", "n", "d", "e", "n", "t", "_", "n", "a",
      "a", "m", "}", "}">>
totaalscore ==
    <<"{", "{", "t", "o", "t", "a", "a", "l", "s", "c", "o", "r", "e", "}", "}">>
transitiefase ==
    <<"{", "{", "t", "r", "a", "n", "s", "i", "t", "i", "e", "f", "a", "s", "e",
      "}", "}">>
transitiefase_naam ==
    <<"{", "{", "t", "r", "a", "n", "s", "i", "t", "i", "e", "f", "a", "s", "e",
      "_", "n", "a", "a", "m", "}", "}">>
laagst_scorende_domein ==
    <<"{", "{", "l", "a", "a", "g", "s", "t", "_", "s", "c", "o", "r", "e", "n",
      "d", "e", "_", "d", "o", "m", "e", "i", "n", "}", "}">>

\* ", ".join(low_scoring) of get_lowest_scoring_domains as a text; a keyword
\* and the text "Geen lage scores" are one element each
RECURSIVE lowest_domains_text(_)
lowest_domains_text(low) ==
    IF low = <<>> THEN <<"Geen lage scores">>
    ELSE <<low[1][1], ":", " ">> \o int_to_digits(low[1][2])
         \o (IF Len(low) = 1 THEN <<>>
             ELSE <<",", " ">> \o lowest_domains_text(Tail(low)))

\* slide_replacements[slide_index].items(): <<placeholder, value>> in the
\* order of the dict; the name of a phase is one element of its text
replacements_of(values, slide_index) ==
    IF slide_index = 0
    THEN << <<organisatie, values.organisatie>>,
            <<rapport_datum, Str(values.rapport_datum)>>,
            <<respondent_naam, Str(values.respondent_naam)>> >>
    ELSE IF slide_index = 3
    THEN << <<organisatie, values.organisatie>>,
            <<totaalscore, Str(values.totaalscore)>>,
            <<transitiefase_naam, Str(<<values.transitiefase_naam>>)>> >>
    ELSE << <<organisatie, values.organisatie>>,
            <<transitiefase, Str(<<values.transitiefase>>)>>,
            <<laagst_scorende_domein,
              Str(lowest_domains_text(values.laagst_scorende_domein))>> >>

\* the loop over replacements.items() of a paragraph from item i on:
\* new_paragraph_text; str.replace raises TypeError for a value that is no str
RECURSIVE replace_found(_, _, _, _)
replace_found(original, replacements, i, acc) ==
    IF acc.raised \/ i > Len(replacements) THEN acc
    ELSE IF contains(original, replacements[i][1])
    THEN IF replacements[i][2].isStr
         THEN replace_found(original, replacements, i + 1,
                  [raised |-> FALSE,
                   value |-> str_replace(acc.value, replacements[i][1],
                                         replacements[i][2].str)])
         ELSE [acc EXCEPT !.raised = TRUE]
    ELSE replace_found(original, replacements, i + 1, acc)

\* every paragraph is taken to need a replacement
needs_replacement_always(original, replacements) ==
    Len(replacements) > 0 /\ Len(original) >= 0

needs_replacement(original, replacements) ==
    \E i \in 1..Len(replacements) : contains(original, replacements[i][1])

\* the formatting that the new run gets from the first original run; the
\* color is captured only when run.font.color has an rgb value, which a
\* color taken from the theme has not
first_format(paragraph) ==
    IF paragraph = <<>> THEN NoFont
    ELSE LET f == paragraph[1].font
             captured == IF f.color \in {"None", "MSO_THEME_COLOR.ACCENT_1"}
                         THEN "None" ELSE f.color
         IN  [name |-> IF f.name # "None" THEN f.name ELSE "None",
              size |-> IF f.size # "None" THEN f.size ELSE "None",
              bold |-> IF f.bold # "None" THEN f.bold ELSE "None",
              italic |-> IF f.italic # "None" THEN f.italic ELSE "None",
              color |-> IF captured # "None" THEN captured ELSE "None"]

\* a paragraph after the body of "for paragraph in ...paragraphs"
replace_in_paragraph(paragraph, replacements) ==
    LET original == paragraph_text(paragraph)
        r == replace_found(original, replacements, 1,
                           [raised |-> FALSE, value |-> original])
    IN  IF ~needs_replacement(original, replacements) \/ r.raised
        THEN [raised |-> r.raised, value |-> paragraph]
        ELSE [raised |-> FALSE,
              value |-> <<Run(clean_text(r.value), first_format(paragraph))>>]

\* a loop that stops at the first element that raises: the elements before
\* it are processed, the raising one is as far as it got, the rest untouched
until_raise(results, originals) ==
    LET bad == {k \in 1..Len(results) : results[k].raised}
    IN  [raised |-> bad # {},
         value |-> [k \in 1..Len(results) |->
                       IF \A b \in bad : k <= b THEN results[k].value
                       ELSE originals[k]]]

\* a shape after the body of "for shape in slide.shapes"; a shape of
\* python-pptx that has text has a text_frame, so the fallback for a shape
\* with text and without text_frame applies to no shape
replace_in_shape(shape, replacements) ==
    IF shape.kind = "text_frame"
    THEN LET r == until_raise([k \in 1..Len(shape.paragraphs) |->
                                  replace_in_paragraph(shape.paragraphs[k], replacements)],
                              shape.paragraphs)
         IN  [raised |-> r.raised, value |-> [shape EXCEPT !.paragraphs = r.value]]
    ELSE [raised |-> FALSE, value |-> shape]

replace_in_slide(slide, replacements) ==
    LET r == until_raise([k \in 1..Len(slide.shapes) |->
                             replace_in_shape(slide.shapes[k], replacements)],
                         slide.shapes)
    IN  [raised |-> r.raised, value |-> [slide EXCEPT !.shapes = r.value]]

\* the loop over slide_replacements.items(): slide indices 0, 3 and 8
replace_in_slides(prs, values) ==
    until_raise([k \in 1..Len(prs) |->
                    IF k - 1 \in {0, 3, 8}
                    THEN replace_in_slide(prs[k], replacements_of(values, k - 1))
                    ELSE [raised |-> FALSE, value |-> prs[k]]],
                prs)

EmptyPayload == [f \in {} |-> Num(0)]

(***************************************************************************)
(* The request: process_lead.                                              *)
(***************************************************************************)
NoSlide4 ==
    [rendered |-> FALSE, total_score |-> 0, subdomain_scores |-> <<>>,
     highlighted |-> {}, status_name |-> "", bold_focus |-> {}]
NoSlide5 == [rendered |-> FALSE, rows |-> <<>>]
NoSlide6 == [rendered |-> FALSE, table |-> <<>>, radar |-> <<>>]
NoTable == [rendered |-> FALSE, fallback |-> FALSE, rows |-> <<>>]
NoUpload == [success |-> FALSE, download_url |-> FALSE]

\* what a request is given and never changes
input_vars == <<payload, is_json, valid_json, template, num_slides, io_fault>>
\* the images of the five target slides
chart_vars == <<slide4, slide5, slide6, slide7, slide8>>
\* what leaves the service
delivery_vars == <<calls, temp_file, upload_result, response>>
\* the argument and the result of the word wrap and of clean_text
function_vars == <<cell, wrapped_lines, text, cleaned>>

\* bool(value) of a payload value
truthy(v) == IF v.isStr THEN v.str # <<>> ELSE v.num # 0

\* the first lines of process_lead: the request is refused when its
\* Content-Type is not JSON or its payload is empty; request.get_json() is
\* called inside the try block and raises BadRequest for a body it cannot
\* parse, which "except Exception" turns into the answer 500
process_lead ==
    /\ pc = "process_lead"
    /\ IF ~is_json
       THEN /\ response' = <<[status |-> 400, success |-> "absent"]>>
            /\ pc' = "done"
            /\ UNCHANGED exception
       ELSE IF ~valid_json
       THEN /\ pc' = "failed"
            /\ exception' = "get_json"
            /\ UNCHANGED response
       ELSE IF payload = EmptyPayload
       THEN /\ response' = <<[status |-> 400, success |-> "absent"]>>
            /\ pc' = "done"
            /\ UNCHANGED exception
       ELSE /\ pc' = "get_access_token"
            /\ UNCHANGED <<response, exception>>
    /\ UNCHANGED <<input_vars, open_figures, presentation, slide_replacements,
                   chart_vars, calls, temp_file, upload_result, function_vars>>

\* what the token service may answer
TokenResponses == {"access_token", "no_access_token", "status", "ConnectionError"}

get_access_token ==
    /\ pc = "get_access_token"
    /\ \E answer \in TokenResponses :
         /\ calls' = Append(calls, [to |-> "token", ok |-> answer = "access_token"])
         /\ IF answer = "access_token"
            THEN /\ pc' = "download_ppt_template"
                 /\ UNCHANGED exception
            ELSE /\ pc' = "failed"
                 /\ exception' = "get_access_token"
    /\ UNCHANGED <<input_vars, open_figures, presentation, slide_replacements, chart_vars,
                   temp_file, upload_result, response, function_vars>>

\* what the template store may answer
DownloadResponses == {"pptx", "status", "ConnectionError"}

\* a handler that goes from the download straight to the composer
download_ppt_template_skip ==
    /\ pc = "download_ppt_template"
    /\ calls' = Append(calls, [to |-> "download", ok |-> TRUE])
    /\ presentation' = template
    /\ pc' = "slide4"
    /\ UNCHANGED <<input_vars, open_figures, exception, slide_replacements, chart_vars,
                   temp_file, upload_result, response, function_vars>>

download_ppt_template ==
    /\ pc = "download_ppt_template"
    /\ \E answer \in DownloadResponses :
         /\ calls' = Append(calls, [to |-> "download", ok |-> answer = "pptx"])
         /\ IF answer = "pptx"
            THEN /\ presentation' = template
                 /\ pc' = "replace_placeholders"
                 /\ UNCHANGED exception
            ELSE /\ pc' = "failed"
                 /\ exception' = "download_ppt_template"
                 /\ UNCHANGED presentation
    /\ UNCHANGED <<input_vars, open_figures, slide_replacements, chart_vars,
                   temp_file, upload_result, response, function_vars>>

replace_placeholders ==
    /\ pc = "replace_placeholders"
    /\ LET r == replacement_values(payload)
           d == IF r.raised THEN [raised |-> TRUE, value |-> presentation]
                ELSE replace_in_slides(presentation, r.value)
       IN  IF d.raised
           THEN /\ pc' = "failed"
                /\ exception' = "replace_placeholders"
                /\ presentation' = d.value
                /\ UNCHANGED slide_replacements
           ELSE /\ pc' = "slide4"
                /\ slide_replacements' = r.value
                /\ presentation' = d.value
                /\ UNCHANGED exception
    /\ UNCHANGED <<input_vars, open_figures, chart_vars, delivery_vars, function_vars>>

add_score_breakdown_to_slide4 ==
    /\ pc = "slide4"
    /\ IF num_slides > 3
       THEN LET c == create_score_breakdown_chart(payload)
            IN  IF c.raised \/ io_fault = "slide4"
                THEN /\ pc' = "failed"
                     /\ exception' = "add_charts_to_slides"
                     /\ UNCHANGED <<slide4, presentation>>
                ELSE /\ pc' = "slide5"
                     /\ slide4' = [rendered |-> TRUE,
                                   total_score |-> c.total_score,
                                   subdomain_scores |-> c.subdomain_scores,
                                   highlighted |-> c.highlighted,
                                   status_name |-> c.status_name,
                                   bold_focus |-> c.bold_focus]
                     /\ presentation' =
                            add_picture(presentation, 3,
                                Picture("score_breakdown", Inches(50), Inches(150 - 90),
                                        Inches(1200), Inches(550 - 150)))
                     /\ UNCHANGED exception
       ELSE /\ pc' = "slide5"
            /\ UNCHANGED <<slide4, presentation, exception>>
    /\ UNCHANGED <<input_vars, open_figures, slide_replacements, slide5, slide6, slide7, slide8,
                   delivery_vars, function_vars>>

\* a composer that logs the failure of the domain summary and goes on
add_domain_scores_chart_continue ==
    /\ pc = "slide5"
    /\ IF num_slides > 4
       THEN LET d == calculate_domain_data(payload)
            IN  IF d.raised \/ rating_raises(d.value) \/ io_fault = "slide5"
                THEN /\ pc' = "slide6"
                     /\ exception' = "add_charts_to_slides"
                     /\ open_figures' = IF ~d.raised /\ rating_raises(d.value)
                                        THEN open_figures + 1 ELSE open_figures
                     /\ UNCHANGED <<slide5, presentation>>
                ELSE /\ pc' = "slide6"
                     /\ slide5' = [rendered |-> TRUE,
                                   rows |-> create_domain_scores_table(d.value)]
                     /\ presentation' =
                            add_picture(presentation, 4,
                                Picture("domain_scores", Inches(200), Inches(250),
                                        Inches(900), Inches(400)))
                     /\ UNCHANGED <<exception, open_figures>>
       ELSE /\ pc' = "slide6"
            /\ UNCHANGED <<slide5, presentation, exception, open_figures>>
    /\ UNCHANGED <<input_vars, slide_replacements, slide4, slide6, slide7, slide8,
                   delivery_vars, function_vars>>

add_domain_scores_chart ==
    /\ pc = "slide5"
    /\ IF num_slides > 4
       THEN LET d == calculate_domain_data(payload)
            IN  IF d.raised \/ rating_raises(d.value) \/ io_fault = "slide5"
                THEN /\ pc' = "failed"
                     /\ exception' = "add_charts_to_slides"
                     /\ open_figures' = IF ~d.raised /\ rating_raises(d.value)
                                        THEN open_figures + 1 ELSE open_figures
                     /\ UNCHANGED <<slide5, presentation>>
                ELSE /\ pc' = "slide6"
                     /\ slide5' = [rendered |-> TRUE,
                                   rows |-> create_domain_scores_table(d.value)]
                     /\ presentation' =
                            add_picture(presentation, 4,
                                Picture("domain_scores", Inches(200), Inches(250),
                                        Inches(900), Inches(400)))
                     /\ UNCHANGED <<exception, open_figures>>
       ELSE /\ pc' = "slide6"
            /\ UNCHANGED <<slide5, presentation, exception, open_figures>>
    /\ UNCHANGED <<input_vars, slide_replacements, slide4, slide6, slide7, slide8,
                   delivery_vars, function_vars>>

\* the placement of the subdomain table: a negative left margin is replaced
table_left == IF Inches(10 - 50) < 0 THEN Inches(5) ELSE Inches(10 - 50)

add_detailed_reports_to_slide6 ==
    /\ pc = "slide6"
    /\ IF num_slides > 5
       THEN LET t == create_domain_subdomain_report(payload)
                s == create_spider_chart_report(payload)
                with_table ==
                    add_picture(presentation, 5,
                        Picture("domain_subdomain", table_left, Inches(320 - 50),
                                Inches(920), Inches(280)))
            IN  IF t.raised \/ io_fault = "slide6"
                THEN /\ pc' = "failed"
                     /\ exception' = "add_charts_to_slides"
                     /\ UNCHANGED <<slide6, presentation>>
                ELSE IF s.raised
                THEN /\ pc' = "failed"
                     /\ exception' = "add_charts_to_slides"
                     /\ presentation' = with_table
                     /\ UNCHANGED slide6
                ELSE /\ pc' = "slide7"
                     /\ slide6' = [rendered |-> TRUE, table |-> t.rows, radar |-> s.axes]
                     /\ presentation' =
                            add_picture(with_table, 5,
                                Picture("spider_chart", Inches(600 + 200 + 50),
                                        Inches(320 - 70), Inches(400), Inches(300)))
                     /\ UNCHANGED exception
       ELSE /\ pc' = "slide7"
            /\ UNCHANGED <<slide6, presentation, exception>>
    /\ UNCHANGED <<input_vars, open_figures, slide_replacements, slide4, slide5, slide7, slide8,
                   delivery_vars, function_vars>>

\* a composer that asks for one slide more before it places the
\* recommendations
add_concrete_recommendations_to_slide7_late ==
    /\ pc = "slide7"
    /\ IF num_slides > 7
       THEN LET r == create_concrete_recommendations_report(payload)
            IN  IF r.raised \/ io_fault = "slide7"
                THEN /\ pc' = "failed"
                     /\ exception' = "add_charts_to_slides"
                     /\ UNCHANGED <<slide7, presentation>>
                ELSE /\ pc' = "slide8"
                     /\ slide7' = [rendered |-> TRUE, fallback |-> r.fallback, rows |-> r.rows]
                     /\ presentation' =
                            add_picture(presentation, 6,
                                Picture("concrete_recommendations", Inches(100), Inches(270),
                                        Inches(1050), Inches(360)))
                     /\ UNCHANGED exception
       ELSE /\ pc' = "slide8"
            /\ UNCHANGED <<slide7, presentation, exception>>
    /\ UNCHANGED <<input_vars, open_figures, slide_replacements, slide4, slide5, slide6, slide8,
                   delivery_vars, function_vars>>

add_concrete_recommendations_to_slide7 ==
    /\ pc = "slide7"
    /\ IF num_slides > 6
       THEN LET r == create_concrete_recommendations_report(payload)
            IN  IF r.raised \/ io_fault = "slide7"
                THEN /\ pc' = "failed"
                     /\ exception' = "add_charts_to_slides"
                     /\ UNCHANGED <<slide7, presentation>>
                ELSE /\ pc' = "slide8"
                     /\ slide7' = [rendered |-> TRUE, fallback |-> r.fallback, rows |-> r.rows]
                     /\ presentation' =
                            add_picture(presentation, 6,
                                Picture("concrete_recommendations", Inches(100), Inches(270),
                                        Inches(1050), Inches(360)))
                     /\ UNCHANGED exception
       ELSE /\ pc' = "slide8"
            /\ UNCHANGED <<slide7, presentation, exception>>
    /\ UNCHANGED <<input_vars, open_figures, slide_replacements, slide4, slide5, slide6, slide8,
                   delivery_vars, function_vars>>

add_support_overview_to_slide8 ==
    /\ pc = "slide8"
    /\ IF num_slides > 7
       THEN LET r == create_support_overview_report(payload)
            IN  IF r.raised \/ io_fault = "slide8"
                THEN /\ pc' = "failed"
                     /\ exception' = "add_charts_to_slides"
                     /\ UNCHANGED <<slide8, presentation>>
                ELSE /\ pc' = "charts_added"
                     /\ slide8' = [rendered |-> TRUE, fallback |-> r.fallback, rows |-> r.rows]
                     /\ presentation' =
                            add_picture(presentation, 7,
                                Picture("support_overview", Inches(100), Inches(270),
                                        Inches(1050), Inches(360)))
                     /\ UNCHANGED exception
       ELSE /\ pc' = "charts_added"
            /\ UNCHANGED <<slide8, presentation, exception>>
    /\ UNCHANGED <<input_vars, open_figures, slide_replacements, slide4, slide5, slide6, slide7,
                   delivery_vars, function_vars>>

\* processed_ppt.save(temp_file.name)
save_presentation ==
    /\ pc = "charts_added"
    /\ IF io_fault = "save"
       THEN /\ pc' = "failed"
            /\ exception' = "save"
            /\ UNCHANGED temp_file
       ELSE /\ pc' = "upload"
            /\ temp_file' = "saved"
            /\ UNCHANGED exception
    /\ UNCHANGED <<input_vars, open_figures, presentation, slide_replacements, chart_vars,
                   calls, upload_result, response, function_vars>>

\* what the upload target may answer: 200 with or without a Permalink in the
\* attributes, another status, or an exception, which the function catches
UploadResponses == {"Permalink", "no_Permalink", "status", "ConnectionError"}

\* upload_to_zoho_workdrive and the finally clause that unlinks the file
upload_to_zoho_workdrive ==
    /\ pc = "upload"
    /\ \E answer \in UploadResponses :
         /\ calls' = Append(calls, [to |-> "upload",
                                    ok |-> answer \in {"Permalink", "no_Permalink"}])
         /\ upload_result' = [success |-> answer \in {"Permalink", "no_Permalink"},
                              download_url |-> answer = "Permalink"]
    /\ temp_file' = "unlinked"
    /\ pc' = "uploaded"
    /\ UNCHANGED <<input_vars, open_figures, presentation, exception, slide_replacements,
                   chart_vars, response, function_vars>>

\* what the CRM may answer; an exception is caught by the function
AttachResponses == {"attached", "status", "ConnectionError"}

\* payload.get('Lead_ID') is truthy
has_lead_id == "Lead_ID" \in DOMAIN payload /\ truthy(payload["Lead_ID"])

\* a handler that attaches whenever the upload succeeded
attach_file_to_lead_always ==
    /\ pc = "uploaded"
    /\ upload_result.success
    /\ \E answer \in AttachResponses :
         calls' = Append(calls, [to |-> "attach", ok |-> answer = "attached"])
    /\ pc' = "attached"
    /\ UNCHANGED <<input_vars, open_figures, presentation, exception, slide_replacements,
                   chart_vars, temp_file, upload_result, response, function_vars>>

attach_file_to_lead ==
    /\ pc = "uploaded"
    /\ upload_result.success
    /\ has_lead_id /\ upload_result.download_url
    /\ \E answer \in AttachResponses :
         calls' = Append(calls, [to |-> "attach", ok |-> answer = "attached"])
    /\ pc' = "attached"
    /\ UNCHANGED <<input_vars, open_figures, presentation, exception, slide_replacements,
                   chart_vars, temp_file, upload_result, response, function_vars>>

\* the return statements of process_lead after the payload was accepted
return_response ==
    /\ \/ /\ pc = "failed"
          /\ response' = <<[status |-> 500, success |-> "false"]>>
       \/ /\ pc = "uploaded"
          /\ ~upload_result.success
          /\ response' = <<[status |-> 500, success |-> "false"]>>
       \/ /\ pc = "uploaded"
          /\ upload_result.success
          /\ ~(has_lead_id /\ upload_result.download_url)
          /\ response' = <<[status |-> 200, success |-> "true"]>>
       \/ /\ pc = "attached"
          /\ response' = <<[status |-> 200, success |-> "true"]>>
    /\ pc' = "done"
    /\ UNCHANGED <<input_vars, open_figures, presentation, exception, slide_replacements,
                   chart_vars, calls, temp_file, upload_result, function_vars>>

\* the process is given the same request once more, e.g. the sender's retry
\* after a 500; the state of pyplot is the process's and stays
next_request ==
    /\ pc = "done"
    /\ open_figures < MaxOpenFigures
    /\ pc' = "process_lead"
    /\ presentation' = <<>>
    /\ exception' = ""
    /\ slide_replacements' = NoReplacements
    /\ slide4' = NoSlide4
    /\ slide5' = NoSlide5
    /\ slide6' = NoSlide6
    /\ slide7' = NoTable
    /\ slide8' = NoTable
    /\ calls' = <<>>
    /\ temp_file' = "none"
    /\ upload_result' = NoUpload
    /\ response' = <<>>
    /\ UNCHANGED <<input_vars, open_figures, function_vars>>

\* the word wrap of the advice column of the recommendations table
wrap_advice ==
    /\ pc = "wrap"
    /\ wrapped_lines' = wrap(cell, 45)
    /\ pc' = "advice_wrapped"
    /\ UNCHANGED <<input_vars, open_figures, presentation, exception, slide_replacements,
                   chart_vars, delivery_vars, cell, text, cleaned>>

\* the word wrap of the description column of the support overview
wrap_description ==
    /\ pc = "wrap"
    /\ wrapped_lines' = wrap(cell, 60)
    /\ pc' = "description_wrapped"
    /\ UNCHANGED <<input_vars, open_figures, presentation, exception, slide_replacements,
                   chart_vars, delivery_vars, cell, text, cleaned>>

\* clean_text applied to the text, then to its own result
apply_clean_text ==
    /\ pc = "clean_text"
    /\ Len(cleaned) < 2
    /\ cleaned' = Append(cleaned, clean_text(IF cleaned = <<>> THEN text
                                             ELSE cleaned[Len(cleaned)]))
    /\ UNCHANGED <<input_vars, open_figures, presentation, pc, exception, slide_replacements,
                   chart_vars, delivery_vars, cell, wrapped_lines, text>>

\* replace_placeholders and add_charts_to_slides on a loaded presentation
Next ==
    \/ replace_placeholders
    \/ add_score_breakdown_to_slide4
    \/ add_domain_scores_chart
    \/ add_detailed_reports_to_slide6
    \/ add_concrete_recommendations_to_slide7
    \/ add_support_overview_to_slide8

\* the whole handler
NextRequest ==
    \/ process_lead
    \/ get_access_token
    \/ download_ppt_template
    \/ Next
    \/ save_presentation
    \/ upload_to_zoho_workdrive
    \/ attach_file_to_lead
    \/ return_response
    \/ next_request

NextWrap == wrap_advice \/ wrap_description

NextClean == apply_clean_text

(***************************************************************************)
(* Payloads.                                                               *)
(***************************************************************************)
\* the number of slides of the report template
TemplateSlides == 9

\* an optional field: <<>> when absent, <<v>> when present with value v
field_opt(field, o) == IF o = <<>> THEN EmptyPayload ELSE (field :> o[1])

TextOptions ==
    {<<>>,
     <<Str(<<"2", ".", " ", "x">>)>>,
     <<Str(<<"4", ".", " ", "x">>)>>,
     <<Str(<<"x">>)>>,
     <<Str(<<" ">>)>>}

NumericOptions ==
    {<<>>} \cup {<<Num(n)>> : n \in 0..5} \cup {<<Str(<<"x">>)>>}

RECURSIVE subdomain_fields(_, _)
subdomain_fields(a, i) ==
    IF i > 8 THEN EmptyPayload
    ELSE field_opt(subdomain_data[i].question_field, a[i].t)
         @@ field_opt(subdomain_data[i].numeric_field, a[i].n)
         @@ subdomain_fields(a, i + 1)

\* the sets of subdomains (of domain sums) that deviate from the base payload
VariedSets(n) == {T \in SUBSET (1..n) : Cardinality(T) <= MaxVaried}

\* every subdomain carries the numeric score b and no free text, except the
\* subdomains of S, which carry the combination f gives them
assignment(S, f, b) ==
    [i \in 1..8 |-> IF i \in S THEN f[i] ELSE [t |-> <<>>, n |-> b]]

BaseOptions == {<<Num(2)>>, <<Num(5)>>}
TotalOptions == {<<>>, <<Num(36)>>, <<Num(40)>>}

ClassifyOptions ==
    {<<>>, <<Str(<<"x">>)>>}
    \cup {<<Num(t)>> : t \in (0 - 1)..MaxTotalSum}
    \cup {<<Str(int_to_digits(t))>> : t \in 0..MaxTotalSum}

DomainSumOptions ==
    {<<>>, <<Str(<<"x">>)>>} \cup {<<Num(s)>> : s \in (0 - MaxNegativeSum)..MaxDomainSum}

RECURSIVE domain_sum_fields(_, _, _)
domain_sum_fields(S, f, k) ==
    IF k > 4 THEN EmptyPayload
    ELSE field_opt(DomainSumFields[k], IF k \in S THEN f[k] ELSE <<>>)
         @@ domain_sum_fields(S, f, k + 1)

\* the formatting of the runs of the templates
Font1 ==
    [name |-> "Arial", size |-> "Pt(18)", bold |-> "True", italic |-> "None",
     color |-> "MSO_THEME_COLOR.ACCENT_1"]
Font2 ==
    [name |-> "None", size |-> "None", bold |-> "False", italic |-> "True",
     color |-> "FF0000"]

\* slide i of the template of a request: a text frame with a token that is
\* split over two runs, a paragraph without token, a paragraph with the
\* token of the total, and a shape without text
template_slide(i) ==
    [slide_id |-> 255 + i,
     shapes |-> <<text_frame(<< <<Run(SubSeq(organisatie, 1, 5), Font1),
                                  Run(SubSeq(organisatie, 6, 15) \o <<" ", "x">>, Font2)>>,
                                <<Run(<<"x", " ", " ", "y">>, Font2)>>,
                                <<Run(totaalscore, Font1)>> >>),
                  graphic_frame>>]
template_of(n) == [i \in 1..n |-> template_slide(i)]

\* the state of a request in which nothing was computed or delivered
NothingDone ==
    /\ exception = ""
    /\ slide_replacements = NoReplacements
    /\ slide4 = NoSlide4
    /\ slide5 = NoSlide5
    /\ slide6 = NoSlide6
    /\ slide7 = NoTable
    /\ slide8 = NoTable
    /\ temp_file = "none"
    /\ upload_result = NoUpload
    /\ response = <<>>
    /\ open_figures = 0

\* no function is being run on its own
NoFunction ==
    /\ cell = <<>>
    /\ wrapped_lines = <<>>
    /\ text = <<>>
    /\ cleaned = <<>>

\* a request whose token and template arrived; the template's slides carry
\* no text, the charts being what these payload families are about
InitRequest ==
    /\ is_json = TRUE
    /\ valid_json = TRUE
    /\ template = [i \in 1..TemplateSlides |->
                     [slide_id |-> 255 + i, shapes |-> <<graphic_frame>>]]
    /\ num_slides = TemplateSlides
    /\ presentation = template
    /\ pc = "replace_placeholders"
    /\ io_fault = "none"
    /\ calls = <<[to |-> "token", ok |-> TRUE], [to |-> "download", ok |-> TRUE]>>
    /\ NothingDone
    /\ NoFunction

\* at most MaxVaried subdomains deviate from a uniform numeric payload
Init ==
    /\ \E S \in VariedSets(8) : \E b \in BaseOptions : \E tot \in TotalOptions :
         \E f \in [S -> [t : TextOptions, n : NumericOptions]] :
            payload = subdomain_fields(assignment(S, f, b), 1)
                      @@ field_opt("Total_Sum", tot)
    /\ InitRequest

\* the payload carries Total_Sum only
InitClassify ==
    /\ \E tot \in ClassifyOptions : payload = field_opt("Total_Sum", tot)
    /\ InitRequest

\* at most MaxVaried of the four Domain_k_Sum fields are present
InitRating ==
    /\ \E S \in VariedSets(4) : \E f \in [S -> DomainSumOptions] :
          payload = domain_sum_fields(S, f, 1)
    /\ InitRequest

\* Lead_ID of a payload: absent, an id, the empty text, the number 0
LeadOptions == {<<>>, <<Str(<<"7">>)>>, <<Str(<<>>)>>, <<Num(0)>>}

\* one field that no renderer can parse, or none
BrokenOptions ==
    {EmptyPayload,
     "Total_Sum" :> Str(<<"x">>),
     "Domain_1_Sum" :> Str(<<"x">>),
     "Domain_1_Sum" :> Str(<<"n", "a", "n">>),
     "Governance_Q1" :> Str(<<"x">>)}

\* the file operation that fails in a request, if any: the insertion of the
\* picture of a target slide, or the saving of the presentation
IoFaults == {"none", "slide4", "slide5", "slide6", "slide7", "slide8", "save"}

\* a request as it arrives: any Content-Type, a body that does not parse or
\* any payload, a template of 0..MaxSlides slides
InitProcessLead ==
    /\ is_json \in BOOLEAN
    /\ \/ /\ valid_json = FALSE
          /\ payload = EmptyPayload
       \/ /\ valid_json = TRUE
          /\ \/ payload = EmptyPayload
             \/ \E lead \in LeadOptions : \E broken \in BrokenOptions :
                  payload = broken @@ field_opt("Lead_ID", lead)
                            @@ subdomain_fields(assignment({}, <<>>, <<Num(2)>>), 1)
    /\ \E n \in 0..MaxSlides :
         /\ template = template_of(n)
         /\ num_slides = n
    /\ io_fault \in IoFaults
    /\ presentation = <<>>
    /\ pc = "process_lead"
    /\ calls = <<>>
    /\ NothingDone
    /\ NoFunction

\* what a paragraph of a template is made of: a token or one other character
Segments ==
    <<organisatie, rapport_datum, respondent_naam, totaalscore, transitiefase,
      transitiefase_naam, laagst_scorende_domein, <<"x">>, <<" ">> >>

\* where the text of a paragraph is cut into two runs (0: one run)
CutOptions == {0, 2, 16}

paragraph_of(s, cut) ==
    IF s = <<>> THEN <<>>
    ELSE IF cut > 0 /\ cut < Len(s)
    THEN IF cut = 2
         THEN <<Run(SubSeq(s, 1, cut), Font2), Run(SubSeq(s, cut + 1, Len(s)), Font1)>>
         ELSE <<Run(SubSeq(s, 1, cut), Font1), Run(SubSeq(s, cut + 1, Len(s)), Font2)>>
    ELSE <<Run(s, Font1)>>

OrganizationOptions ==
    {<<>>, <<Str(<<"A", " ", " ", "B">>)>>, <<Str(rapport_datum)>>, <<Num(7)>>}
NameOptions == {<<>>, <<Str(<<"J">>)>>}

\* every slide of the template carries the same paragraph of at most
\* MaxSegments segments; the payload carries the fields of the text values
InitText ==
    /\ \E o \in OrganizationOptions : \E first_name \in NameOptions :
         payload = ("Total_Sum" :> Num(36)) @@ field_opt("Organization", o)
                   @@ field_opt("First_Name", first_name)
                   @@ ("Last_Name" :> Str(<<"D">>))
    /\ \E n \in 0..MaxSegments : \E f \in [1..n -> 1..Len(Segments)] :
         \E cut \in CutOptions :
            template = [i \in 1..TemplateSlides |->
                          [slide_id |-> 255 + i,
                           shapes |-> <<text_frame(<<paragraph_of(
                                            join([k \in 1..n |-> Segments[f[k]]], <<>>),
                                            cut)>>),
                                        graphic_frame>>]]
    /\ is_json = TRUE
    /\ valid_json = TRUE
    /\ num_slides = TemplateSlides
    /\ presentation = template
    /\ pc = "replace_placeholders"
    /\ io_fault = "none"
    /\ calls = <<[to |-> "token", ok |-> TRUE], [to |-> "download", ok |-> TRUE]>>
    /\ NothingDone
    /\ NoFunction

\* the first k subdomains score b + 1, the others b or are absent, and
\* Total_Sum is absent or any number: the sums of the *_Numeric fields run
\* over every value around the ranges of the phases, whatever Total_Sum says;
\* the template has the tokens of the total and the phase on slide index 3
\* and the token of the low scores on slide index 8
InitTotals ==
    /\ \E b \in (0 - 1)..(MaxScore - 1) : \E k \in 0..8 : \E rest \in BOOLEAN :
         \E tot \in {<<>>} \cup {<<Num(t)>> : t \in (0 - 1)..MaxTotalSum} :
            payload = field_opt("Total_Sum", tot)
                      @@ subdomain_fields(
                             [i \in 1..8 |->
                                 [t |-> <<>>,
                                  n |-> IF i <= k THEN <<Num(b + 1)>>
                                        ELSE IF rest THEN <<Num(b)>> ELSE <<>>]], 1)
    /\ template = [i \in 1..TemplateSlides |->
                     [slide_id |-> 255 + i,
                      shapes |-> IF i = 4
                                 THEN <<text_frame(<< <<Run(totaalscore, Font1)>>,
                                                      <<Run(transitiefase_naam, Font1)>> >>),
                                        graphic_frame>>
                                 ELSE IF i = 9
                                 THEN <<text_frame(<< <<Run(laagst_scorende_domein, Font2)>> >>)>>
                                 ELSE <<graphic_frame>>]]
    /\ is_json = TRUE
    /\ valid_json = TRUE
    /\ num_slides = TemplateSlides
    /\ presentation = template
    /\ pc = "replace_placeholders"
    /\ io_fault = "none"
    /\ calls = <<[to |-> "token", ok |-> TRUE], [to |-> "download", ok |-> TRUE]>>
    /\ NothingDone
    /\ NoFunction

\* nothing of a request: the states of the runs of one function
NoRequest ==
    /\ payload = EmptyPayload
    /\ is_json = FALSE
    /\ valid_json = FALSE
    /\ template = <<>>
    /\ num_slides = 0
    /\ presentation = <<>>
    /\ io_fault = "none"
    /\ calls = <<>>
    /\ NothingDone

\* the lengths of the words of a cell text; a word of length 0 is what
\* split(' ') gives between two consecutive spaces
WordLengths == {0, 1, 22, 23, 30, 45, 46, 61}
Letters == <<"a", "b", "c", "d", "e">>

\* a cell text of at most MaxWords words, word i spelled with letter i
InitWrap ==
    /\ \E n \in 0..MaxWords : \E f \in [1..n -> WordLengths] :
         cell = join([i \in 1..n |-> repeat(Letters[((i - 1) % 5) + 1], f[i])], <<" ">>)
    /\ wrapped_lines = <<>>
    /\ text = <<>>
    /\ cleaned = <<>>
    /\ pc = "wrap"
    /\ NoRequest

\* the alphabet of the texts that are cleaned
Pieces ==
    << <<"a">>, <<" ">>, <<"\n">>, <<"\r">>, <<"\t">>, <<VT>>,
       x000A, x000D, x000B, x0009 >>

\* a text of at most MaxPieces pieces
InitClean ==
    /\ \E n \in 0..MaxPieces : \E f \in [1..n -> 1..Len(Pieces)] :
         text = join([i \in 1..n |-> Pieces[f[i]]], <<>>)
    /\ cleaned = <<>>
    /\ cell = <<>>
    /\ wrapped_lines = <<>>
    /\ pc = "clean_text"
    /\ NoRequest

\* requests over the subdomain score fields
Spec == Init /\ [][Next]_vars
\* requests over Total_Sum
SpecClassify == InitClassify /\ [][Next]_vars
\* requests over Domain_1_Sum .. Domain_4_Sum
SpecRating == InitRating /\ [][Next]_vars
\* whole requests: any template length, any answer of the external services
SpecRequest == InitProcessLead /\ [][NextRequest]_vars
\* substitution over templates and text values
SpecText == InitText /\ [][Next]_vars
\* requests over the sums of the subdomain scores and Total_Sum
SpecTotals == InitTotals /\ [][Next]_vars
\* the word wrap as a function
SpecWrap == InitWrap /\ [][NextWrap]_vars
\* clean_text as a function
SpecClean == InitClean /\ [][NextClean]_vars

(***************************************************************************)
(* Properties.                                                             *)
(***************************************************************************)
Count(c, s) == Cardinality({i \in 1..Len(s) : s[i] = c})
numeric_is(p, i, n) ==
    /\ subdomain_data[i].numeric_field \in DOMAIN p
    /\ p[subdomain_data[i].numeric_field] = Num(n)
no_free_text(p) == \A i \in 1..8 : subdomain_data[i].question_field \notin DOMAIN p
Subdomains == {subdomain_data[i].subdomain : i \in 1..8}
row_keys(rows) == {<<rows[r].subdomain, rows[r].score>> : r \in 1..Len(rows)}

\* the five phases with their ranges of the total score
PhaseRanges ==
    << <<0, 14, "Startfase">>, <<15, 22, "Aan de slag">>, <<23, 30, "Op de kaart">>,
       <<31, 36, "In control">>, <<37, 40, "Voorloper">> >>

\* C1: for every integer Total_Sum T in 0..40 (a number or its decimal
\* text) the phase that replace_placeholders obtains from get_transitiefase
\* is the name of the one range of PhaseRanges that contains T, never
\* "Onbekend"; the ranges are contiguous and cover 0..40.
C1_PhaseOfTotal ==
    /\ PhaseRanges[1][1] = 0 /\ PhaseRanges[5][2] = 40
    /\ \A i \in 1..4 : PhaseRanges[i + 1][1] = PhaseRanges[i][2] + 1
    /\ (slide_replacements.computed /\ "Total_Sum" \in DOMAIN payload)
        => LET t == py_int(payload["Total_Sum"]).value
           IN  t \in 0..40 =>
                 /\ slide_replacements.transitiefase_naam # "Onbekend"
                 /\ \E i \in 1..5 :
                      /\ PhaseRanges[i][1] <= t /\ t <= PhaseRanges[i][2]
                      /\ slide_replacements.transitiefase_naam = PhaseRanges[i][3]
                      /\ \A k \in 1..5 : k # i =>
                           slide_replacements.transitiefase_naam # PhaseRanges[k][3]

\* a request with Total_Sum = 14 was classified as Startfase
C1_Witness ==
    /\ slide_replacements.computed
    /\ "Total_Sum" \in DOMAIN payload
    /\ payload["Total_Sum"] = Num(14)
    /\ slide_replacements.transitiefase_naam = "Startfase"

\* the payload with Governance_Q1_Numeric = 1 and the other seven = 5
scenario_one_low(p) ==
    /\ no_free_text(p)
    /\ numeric_is(p, 1, 1)
    /\ \A i \in 2..8 : numeric_is(p, i, 5)

\* C2: for the payload with Governance_Q1_Numeric = 1 and the other seven
\* numeric fields 5, the maturity chart states total 36 and phase
\* "In control", and the recommendations table is not the congratulatory
\* fallback but has exactly one row: "Visie op passende zorg", score 1, with
\* the advice stored under that key.
C2_OneLowScoreRow ==
    scenario_one_low(payload) =>
        /\ slide4.rendered => (slide4.total_score = 36 /\ slide4.status_name = "In control")
        /\ slide7.rendered =>
             /\ ~slide7.fallback
             /\ Len(slide7.rows) = 1
             /\ slide7.rows[1].subdomain = "Visie op passende zorg"
             /\ slide7.rows[1].score = 1
             /\ slide7.rows[1].advice
                  = advice_mapping[<<"Visie op passende zorg", 1>>].advice

\* the payload whose eight numeric fields are all 5
scenario_all_five(p) == no_free_text(p) /\ \A i \in 1..8 : numeric_is(p, i, 5)

\* C3: for a payload whose eight numeric fields are all 5, the text values
\* for {{totaalscore}} and {{transitiefase_naam}} are "40" and "Voorloper",
\* the maturity chart states 40 and Voorloper, and the recommendations table
\* and the support overview both render the fallback with no rows.
C3_AllFive ==
    scenario_all_five(payload) =>
        /\ slide_replacements.computed =>
             /\ slide_replacements.totaalscore = <<"4", "0">>
             /\ slide_replacements.transitiefase_naam = "Voorloper"
        /\ slide4.rendered => (slide4.total_score = 40 /\ slide4.status_name = "Voorloper")
        /\ slide7.rendered => (slide7.fallback /\ slide7.rows = <<>>)
        /\ slide8.rendered => (slide8.fallback /\ slide8.rows = <<>>)

\* the table uses score n for subdomain: a row if and only if n is 1, 2 or 3,
\* and every row of the subdomain carries n
uses_score(table, subdomain, n) ==
    /\ n \in {1, 2, 3} =>
         \E r \in 1..Len(table.rows) :
            table.rows[r].subdomain = subdomain /\ table.rows[r].score = n
    /\ \A r \in 1..Len(table.rows) :
         table.rows[r].subdomain = subdomain => table.rows[r].score = n

\* C4: when a subdomain has both the free-text field "<digit>. <text>" and
\* the numeric field, with different scores, the recommendations table and
\* the support overview both use the numeric score.
C4_NumericPrecedence ==
    \A i \in 1..8 :
        LET q == subdomain_data[i].question_field
            n == subdomain_data[i].numeric_field
        IN  (/\ q \in DOMAIN payload /\ n \in DOMAIN payload
             /\ payload[q].isStr /\ strip(payload[q].str) # <<>>
             /\ ~int_of_str(split_dot_0(payload[q].str)).raised
             /\ ~py_int(payload[n]).raised
             /\ int_of_str(split_dot_0(payload[q].str)).value # py_int(payload[n]).value)
            => /\ slide7.rendered =>
                    uses_score(slide7, subdomain_data[i].subdomain, py_int(payload[n]).value)
               /\ slide8.rendered =>
                    uses_score(slide8, subdomain_data[i].subdomain, py_int(payload[n]).value)

\* the score of a field as the claim defines it: 0 when absent or unparseable
score_or_zero(p, field) ==
    IF field \notin DOMAIN p \/ py_int(p[field]).raised THEN 0 ELSE py_int(p[field]).value

\* C5: an absent or unparseable score field counts as 0 and is not fatal:
\* no step of the request raises, and the subdomain table shows 0 for every
\* numeric field that is absent or not a number.
C5_MalformedIsZero ==
    /\ pc # "failed"
    /\ slide6.rendered =>
         \A i \in 1..8 :
            slide6.table[i].score = score_or_zero(payload, subdomain_data[i].numeric_field)

\* C6: whenever the recommendations renderer has consulted the tables,
\* advice_mapping and support_mapping have an entry with non-empty texts for
\* every (subdomain, score) with one of the 8 labels and score 1, 2 or 3, and
\* for no other pair; the key sets are equal, and the support text and type
\* of an advice entry equal the description and type of the support entry,
\* also in the rows that the two renderers produce for the same key.
C6_AdviceTables ==
    slide7.rendered =>
        /\ DOMAIN advice_mapping = Subdomains \X {1, 2, 3}
        /\ DOMAIN support_mapping = DOMAIN advice_mapping
        /\ \A s \in Subdomains : \A n \in {0, 4, 5} :
             <<s, n>> \notin DOMAIN advice_mapping /\ <<s, n>> \notin DOMAIN support_mapping
        /\ \A k \in DOMAIN advice_mapping :
             /\ advice_mapping[k].advice # ""
             /\ advice_mapping[k].support # ""
             /\ advice_mapping[k].support_type # ""
        /\ \A k \in DOMAIN support_mapping :
             /\ support_mapping[k].description # ""
             /\ support_mapping[k].support_type # ""
             /\ k \in DOMAIN advice_mapping =>
                  /\ advice_mapping[k].support = support_mapping[k].description
                  /\ advice_mapping[k].support_type = support_mapping[k].support_type
        /\ slide8.rendered =>
             \A r \in 1..Len(slide7.rows) : \A q \in 1..Len(slide8.rows) :
                (/\ slide7.rows[r].subdomain = slide8.rows[q].subdomain
                 /\ slide7.rows[r].score = slide8.rows[q].score)
                => /\ slide7.rows[r].support = slide8.rows[q].description
                   /\ slide7.rows[r].support_type = slide8.rows[q].support_type

\* both tables were rendered with a row for the same (subdomain, score),
\* filled from the two mappings
C6_Witness ==
    /\ slide7.rendered /\ slide8.rendered
    /\ \E r \in 1..Len(slide7.rows) : \E q \in 1..Len(slide8.rows) :
         /\ slide7.rows[r].subdomain = slide8.rows[q].subdomain
         /\ slide7.rows[r].score = 3 /\ slide8.rows[q].score = 3
         /\ slide7.rows[r].support = slide8.rows[q].description

\* C7: the recommendations table has exactly one row for each subdomain
\* whose extracted score (subdomain_scores of the renderer) is 1, 2 or 3 and
\* no other row; a row carries the domain of domain_mapping and the advice
\* of the entry (subdomain, score); the congratulatory image is rendered if
\* and only if there is no row.
C7_RecommendationRows ==
    slide7.rendered =>
        LET d == rec_subdomain_scores(payload).scores
            rows == slide7.rows
        IN  /\ \A j \in 1..Len(d) :
                 d[j][2] \in {1, 2, 3} =>
                    Cardinality({r \in 1..Len(rows) : rows[r].subdomain = d[j][1]}) = 1
            /\ \A r \in 1..Len(rows) :
                 /\ \E j \in 1..Len(d) :
                      /\ d[j][1] = rows[r].subdomain
                      /\ d[j][2] = rows[r].score
                      /\ d[j][2] \in {1, 2, 3}
                 /\ rows[r].domain = lookup(domain_mapping, rows[r].subdomain)
                 /\ rows[r].advice
                      = advice_mapping[<<rows[r].subdomain, rows[r].score>>].advice
            /\ slide7.fallback <=> (rows = <<>>)

\* a table with rows was rendered while a subdomain with extracted score 3
\* got its row and another with extracted score 4 or 5 got none
C7_Witness ==
    /\ slide7.rendered /\ ~slide7.fallback
    /\ LET d == rec_subdomain_scores(payload).scores
       IN  /\ \E j \in 1..Len(d) : d[j][2] = 3
           /\ \E j \in 1..Len(d) :
                /\ d[j][2] \in {4, 5}
                /\ \A r \in 1..Len(slide7.rows) : slide7.rows[r].subdomain # d[j][1]

\* C8: the recommendations table and the support overview show the same set
\* of (subdomain, score) rows, and one is the fallback exactly when the
\* other is.
C8_SameAtRiskRows ==
    (slide7.rendered /\ slide8.rendered) =>
        /\ row_keys(slide7.rows) = row_keys(slide8.rows)
        /\ slide7.fallback <=> slide8.fallback

\* C9: for an integer domain score s in 0..10 the rating has s div 2 filled
\* circles, then a half circle exactly when s is odd, then empty circles, 5
\* glyphs in all; the number of filled circles does not decrease with s.
C9_StarRating ==
    /\ \A s \in 0..9 :
         Count("F", generate_star_rating(s).circles)
            <= Count("F", generate_star_rating(s + 1).circles)
    /\ slide5.rendered =>
         \A k \in 1..Len(slide5.rows) :
            LET s == slide5.rows[k].score
                c == slide5.rows[k].rating.circles
            IN  s \in 0..10 =>
                  /\ Len(c) = 5
                  /\ Count("F", c) = s \div 2
                  /\ Count("H", c) = s % 2
                  /\ Count("E", c) = 5 - (s \div 2) - (s % 2)
                  /\ \A a, b \in 1..Len(c) :
                       a < b => <<c[a], c[b]>> \in
                          {<<"F", "F">>, <<"F", "H">>, <<"F", "E">>, <<"H", "E">>, <<"E", "E">>}

\* the domain summary was rendered with the rating of score 7
C9_Witness ==
    /\ slide5.rendered
    /\ \E k \in 1..Len(slide5.rows) :
         /\ slide5.rows[k].score = 7
         /\ slide5.rows[k].rating.circles = <<"F", "F", "F", "H", "E">>

\* C10: every rating of the domain summary has exactly 5 circle glyphs,
\* whatever numbers the payload carries in Domain_1_Sum..Domain_4_Sum.
C10_AlwaysFiveGlyphs ==
    slide5.rendered =>
        \A k \in 1..Len(slide5.rows) : Len(slide5.rows[k].rating.circles) = 5

\* the words of a text: what split(' ') gives, without the empty words
words_of(s) == SelectSeq(split(s, " "), LAMBDA w : w # <<>>)

\* every line fits the width or holds a single word, and the lines hold the
\* words of the cell, whole and in their order
wrapped_within(width) ==
    /\ \A i \in 1..Len(wrapped_lines) :
          \/ Len(wrapped_lines[i]) <= width
          \/ ~contains(wrapped_lines[i], <<" ">>)
    /\ words_of(join(wrapped_lines, <<" ">>)) = words_of(cell)

\* C11: the word wrap of the advice column (width 45) and of the support
\* description column (width 60) gives no line longer than the width, except
\* a line that is one single word longer than the width; no word is split
\* and the words keep their order.
C11_WrapWithinWidth ==
    /\ pc = "advice_wrapped" => wrapped_within(45)
    /\ pc = "description_wrapped" => wrapped_within(60)

\* C11 witness: an advice cell wrapped into a line of two words and a line
\* that is one word of 46 characters.
C11_Witness ==
    /\ pc = "advice_wrapped"
    /\ \E i \in 1..Len(wrapped_lines) : Len(wrapped_lines[i]) = 46
    /\ \E i \in 1..Len(wrapped_lines) :
          /\ contains(wrapped_lines[i], <<" ">>)
          /\ Len(wrapped_lines[i]) = 45

\* C12: clean_text is idempotent: applied to its own result it returns that
\* result (texts over letters, space, newline, CR, tab, VT and the escapes
\* _x000A, _x000D, _x000B, _x0009).
C12_CleanIdempotent ==
    Len(cleaned) = 2 => cleaned[2] = cleaned[1]

\* C13: the result of clean_text has no three consecutive newlines, no two
\* consecutive spaces in a line and no line that begins or ends with
\* whitespace.
C13_CleanOutput ==
    Len(cleaned) >= 1 =>
        LET lines == split(cleaned[1], "\n")
        IN  /\ ~contains(cleaned[1], <<"\n", "\n", "\n">>)
            /\ \A i \in 1..Len(lines) : ~contains(lines[i], <<" ", " ">>)
            /\ \A i \in 1..Len(lines) : strip(lines[i]) = lines[i]

\* the images of the pictures on slide index k, in the order of insertion
images_on(prs, k) ==
    LET pictures == SelectSeq(prs[k + 1].shapes, LAMBDA sh : sh.kind = "picture")
    IN  [j \in 1..Len(pictures) |-> pictures[j].image]

\* the static table: slide index -> the artifacts placed on it
target_images(k) ==
    IF k = 3 THEN <<"score_breakdown">>
    ELSE IF k = 4 THEN <<"domain_scores">>
    ELSE IF k = 5 THEN <<"domain_subdomain", "spider_chart">>
    ELSE IF k = 6 THEN <<"concrete_recommendations">>
    ELSE IF k = 7 THEN <<"support_overview">>
    ELSE <<>>

\* the renderer or the insertion of target slide index k fails in this request
chart_raises(k) ==
    IF k = 3 THEN create_score_breakdown_chart(payload).raised \/ io_fault = "slide4"
    ELSE IF k = 4 THEN calculate_domain_data(payload).raised
                       \/ rating_raises(calculate_domain_data(payload).value)
                       \/ io_fault = "slide5"
    ELSE IF k = 5 THEN \/ create_domain_subdomain_report(payload).raised
                       \/ create_spider_chart_report(payload).raised
                       \/ io_fault = "slide6"
    ELSE IF k = 6 THEN create_concrete_recommendations_report(payload).raised
                       \/ io_fault = "slide7"
    ELSE create_support_overview_report(payload).raised \/ io_fault = "slide8"

\* C14: when add_charts_to_slides has returned on a template of n slides,
\* slide index 3 carries the maturity chart, 4 the domain summary, 5 the
\* subdomain table and the radar chart, 6 the recommendations and 7 the
\* support overview, for exactly the target indices below n; a target index
\* that is not below n never makes the step raise.
C14_ChartsOnExistingSlides ==
    /\ pc = "charts_added" =>
          \A k \in 0..(num_slides - 1) : images_on(presentation, k) = target_images(k)
    /\ exception = "add_charts_to_slides" =>
          \E k \in 3..7 : k < num_slides /\ chart_raises(k)

\* C14 witness: a template of 6 slides got its pictures on slide indices 3,
\* 4 and 5, the targets 6 and 7 were skipped.
C14_Witness ==
    /\ pc = "charts_added"
    /\ num_slides = 6
    /\ images_on(presentation, 5) = <<"domain_subdomain", "spider_chart">>

\* two placement rectangles share a point of positive area
overlap(a, b) ==
    /\ a.left < b.left + b.width
    /\ b.left < a.left + a.width
    /\ a.top < b.top + b.height
    /\ b.top < a.top + a.height

\* C15: no two artifacts placed on the same slide have overlapping placement
\* rectangles; in particular the subdomain table and the radar chart on
\* slide index 5 are disjoint.
C15_DisjointArtifacts ==
    \A i \in 1..Len(presentation) :
        \A j, k \in 1..Len(presentation[i].shapes) :
            (/\ j < k
             /\ presentation[i].shapes[j].kind = "picture"
             /\ presentation[i].shapes[k].kind = "picture")
            => ~overlap(presentation[i].shapes[j], presentation[i].shapes[k])

has_pictures ==
    \E i \in 1..Len(presentation) : \E j \in 1..Len(presentation[i].shapes) :
        presentation[i].shapes[j].kind = "picture"

\* the text of paragraph m of the text frame that is shape j of slide index k
text_at(prs, k, j, m) == paragraph_text(prs[k + 1].shapes[j].paragraphs[m])

\* C16: placeholder substitution has completed on the document before the
\* first picture is inserted: while the composer is at work, and whenever
\* the document holds a picture, the replacement values were computed and
\* the token of the first slide is replaced; before and during the
\* substitution the document holds no picture.
C16_SubstitutionBeforeComposer ==
    /\ (pc \in {"slide4", "slide5", "slide6", "slide7", "slide8", "charts_added"}
        \/ has_pictures)
       => /\ slide_replacements.computed
          /\ num_slides > 0 => ~contains(text_at(presentation, 0, 1, 1), organisatie)
    /\ pc \in {"process_lead", "get_access_token", "download_ppt_template",
               "replace_placeholders"}
       => ~has_pictures

\* C16 witness: the composer is at slide index 5, pictures are in the
\* document and the substitution is done.
C16_Witness ==
    /\ pc = "slide6"
    /\ has_pictures
    /\ slide_replacements.computed
    /\ contains(text_at(template, 0, 1, 1), organisatie)

\* C17: when token acquisition, template download, substitution or the
\* rendering or insertion of an artifact raised, the document is never saved
\* or uploaded, nothing is attached, and the answer is 500 with success =
\* false.
C17_FailFast ==
    exception \in {"get_access_token", "download_ppt_template",
                   "replace_placeholders", "add_charts_to_slides"}
    => /\ temp_file = "none"
       /\ upload_result = NoUpload
       /\ \A i \in 1..Len(calls) : calls[i].to \notin {"upload", "attach"}
       /\ pc \in {"failed", "done"}
       /\ pc = "done" => response = <<[status |-> 500, success |-> "false"]>>

\* C17 witness: the request has ended after a renderer or an insertion
\* failed on a document that already holds pictures.
C17_Witness ==
    /\ pc = "done"
    /\ exception = "add_charts_to_slides"
    /\ has_pictures
    /\ response = <<[status |-> 500, success |-> "false"]>>

\* C18: the external calls are issued at most once each, in the order token,
\* template download, upload, attach, each only after the one before
\* succeeded; attach only when the upload succeeded, the payload has a
\* Lead_ID and the upload result has a permalink.
C18_CallsOnceInOrder ==
    /\ Len(calls) <= 4
    /\ \A i \in 1..Len(calls) :
          calls[i].to = <<"token", "download", "upload", "attach">>[i]
    /\ \A i \in 1..(Len(calls) - 1) : calls[i].ok
    /\ Len(calls) = 4 =>
          upload_result.success /\ upload_result.download_url /\ has_lead_id

\* C18 witness: all four calls were issued.
C18_Witness ==
    /\ Len(calls) = 4
    /\ calls[4].to = "attach"
    /\ pc = "done"

\* the text s with every occurrence of a placeholder of the replacements
\* replaced by its value, all at once from left to right
RECURSIVE substituted(_, _)
substituted(s, replacements) ==
    IF s = <<>> THEN <<>>
    ELSE LET found == {i \in 1..Len(replacements) :
                          /\ Len(replacements[i][1]) <= Len(s)
                          /\ SubSeq(s, 1, Len(replacements[i][1])) = replacements[i][1]}
         IN  IF found = {} THEN <<Head(s)>> \o substituted(Tail(s), replacements)
             ELSE LET i == CHOOSE i \in found : TRUE
                  IN  replacements[i][2].str
                      \o substituted(SubSeq(s, Len(replacements[i][1]) + 1, Len(s)),
                                     replacements)

\* C19: after replace_placeholders, in every text-frame paragraph of slide
\* indices 0, 3 and 8 every occurrence of a token of that slide's own set is
\* replaced by its computed value (the paragraph is then cleaned), also when
\* the token was split over runs; a token of another slide's set stays; a
\* paragraph without a token of the slide's set keeps its text.
C19_TokensReplaced ==
    slide_replacements.computed =>
        \A k \in {0, 3, 8} : k < num_slides =>
            \A j \in 1..Len(template[k + 1].shapes) :
                \A m \in 1..Len(template[k + 1].shapes[j].paragraphs) :
                    LET original == text_at(template, k, j, m)
                        replacements == replacements_of(slide_replacements, k)
                    IN  text_at(presentation, k, j, m) =
                            IF needs_replacement(original, replacements)
                            THEN clean_text(substituted(original, replacements))
                            ELSE original

\* the number of pictures the composer adds to slide index k
pictures_added(k) == IF k = 5 THEN 2 ELSE IF k \in 3..7 THEN 1 ELSE 0

\* a paragraph holds one of the seven tokens
has_token(s) ==
    \E t \in {organisatie, rapport_datum, respondent_naam, totaalscore,
              transitiefase, transitiefase_naam, laagst_scorende_domein} :
        contains(s, t)

\* C20: the pipeline keeps the number and the order of the slides and
\* removes no shape; replace_placeholders changes text only on slide indices
\* 0, 3 and 8 and only in paragraphs that hold a token; add_charts_to_slides
\* only appends pictures: 1, 1, 2, 1, 1 on slide indices 3, 4, 5, 6, 7 when
\* they exist and none on any other slide.
C20_Frame ==
    (Len(calls) >= 2 /\ calls[2].ok) =>
        /\ Len(presentation) = Len(template)
        /\ \A i \in 1..Len(template) :
              LET old == template[i].shapes
                  new == presentation[i].shapes
              IN  /\ presentation[i].slide_id = template[i].slide_id
                  /\ Len(new) >= Len(old)
                  /\ \A j \in 1..Len(old) :
                        /\ new[j].kind = old[j].kind
                        /\ Len(new[j].paragraphs) = Len(old[j].paragraphs)
                        /\ \A m \in 1..Len(old[j].paragraphs) :
                              \/ new[j].paragraphs[m] = old[j].paragraphs[m]
                              \/ /\ i - 1 \in {0, 3, 8}
                                 /\ has_token(paragraph_text(old[j].paragraphs[m]))
                  /\ \A j \in (Len(old) + 1)..Len(new) : new[j].kind = "picture"
                  /\ Len(new) - Len(old) <= pictures_added(i - 1)
                  /\ pc = "charts_added" => Len(new) - Len(old) = pictures_added(i - 1)

\* C20 witness: the composer has returned on a template of 9 slides whose
\* first slide had its token replaced and still holds the paragraph without
\* token as it was.
C20_Witness ==
    /\ pc = "charts_added"
    /\ num_slides = 9
    /\ text_at(presentation, 0, 1, 1) # text_at(template, 0, 1, 1)
    /\ presentation[1].shapes[1].paragraphs[2] = template[1].shapes[1].paragraphs[2]
    /\ Len(presentation[6].shapes) = Len(template[6].shapes) + 2

\* C21: after replace_placeholders, every paragraph that held a token of its
\* slide has exactly one run; the text of that run is clean_text of the
\* paragraph text with the slide's replacements applied, and its font name,
\* size, bold, italic and color are those of the first original run.
C21_OneRunFirstFormat ==
    slide_replacements.computed =>
        \A k \in {0, 3, 8} : k < num_slides =>
            \A j \in 1..Len(template[k + 1].shapes) :
                \A m \in 1..Len(template[k + 1].shapes[j].paragraphs) :
                    LET old == template[k + 1].shapes[j].paragraphs[m]
                        new == presentation[k + 1].shapes[j].paragraphs[m]
                        replacements == replacements_of(slide_replacements, k)
                        original == paragraph_text(old)
                    IN  (old # <<>> /\ needs_replacement(original, replacements))
                        => /\ Len(new) = 1
                           /\ new[1].text =
                                 clean_text(replace_found(original, replacements, 1,
                                     [raised |-> FALSE, value |-> original]).value)
                           /\ new[1].font = old[1].font

\* C22: no figure is left open by a renderer that has returned or raised:
\* where a renderer is about to start (the composer is at one of its target
\* slides) pyplot holds no figure of an earlier renderer, of this request or
\* of an earlier one, and it holds none in any other state of a request.
C22_FiguresClosed ==
    /\ pc \in {"slide4", "slide5", "slide6", "slide7", "slide8"} => open_figures = 0
    /\ pc \notin {"slide4", "slide5", "slide6", "slide7", "slide8"} => open_figures = 0

\* C23: the color of a score is the same in every chart: for every score in
\* 1..5 that a chart of the request shows, the color of the score cell of
\* the recommendations table, of the support overview and of the badge of
\* the maturity chart is the color get_score_color gives that score.
C23_SameColors ==
    /\ slide7.rendered =>
          \A i \in 1..Len(slide7.rows) :
              slide7.rows[i].score \in DOMAIN rec_score_colors
              => rec_score_colors[slide7.rows[i].score]
                     = get_score_color(slide7.rows[i].score)
    /\ slide8.rendered =>
          \A i \in 1..Len(slide8.rows) :
              slide8.rows[i].score \in DOMAIN sup_score_colors
              => sup_score_colors[slide8.rows[i].score]
                     = get_score_color(slide8.rows[i].score)
    /\ slide4.rendered =>
          \A i \in 1..Len(slide4.subdomain_scores) :
              slide4.subdomain_scores[i][3] \in 1..5
              => score_color(slide4.subdomain_scores[i][3])
                     = get_score_color(slide4.subdomain_scores[i][3])

\* C24: a subdomain score of 0, field absent or literal zero, is drawn in
\* the color of score 1: in the subdomain table a row of score 0 has the
\* color get_score_color(1), and in the maturity chart the badge of a
\* score 0 has the color of the badge of score 1.
C24_ZeroIsLowest ==
    /\ slide6.table # <<>> =>
          \A i \in 1..Len(slide6.table) :
              slide6.table[i].score = 0 => slide6.table[i].color = get_score_color(1)
    /\ slide4.rendered =>
          \A i \in 1..Len(slide4.subdomain_scores) :
              slide4.subdomain_scores[i][3] = 0 => score_color(0) = score_color(1)

\* C25: every renderer gives the 8 source fields the same subdomain label
\* and the same domain: axis i of the radar chart has the label of row i of
\* the subdomain table, which is the label of source field i; every row of
\* the recommendations table and of the maturity chart carries the label and
\* the domain of one source field, every row of the support overview the
\* label of one; each domain has 2 of the 8 subdomains.
C25_SameSubdomains ==
    /\ slide6.rendered =>
          \A i \in 1..8 :
              /\ slide6.table[i].subdomain = subdomain_data[i].subdomain
              /\ slide6.table[i].domain = subdomain_data[i].domain
              /\ slide6.radar[i].subdomain = slide6.table[i].subdomain
              /\ Cardinality({j \in 1..8 : slide6.table[j].domain
                                               = slide6.table[i].domain}) = 2
    /\ slide7.rendered =>
          \A r \in 1..Len(slide7.rows) : \E i \in 1..8 :
              /\ slide7.rows[r].subdomain = subdomain_data[i].subdomain
              /\ slide7.rows[r].domain = subdomain_data[i].domain
    /\ slide8.rendered =>
          \A r \in 1..Len(slide8.rows) : slide8.rows[r].subdomain \in Subdomains
    /\ slide4.rendered =>
          \A r \in 1..Len(slide4.subdomain_scores) : \E i \in 1..8 :
              /\ slide4.subdomain_scores[r][2] = subdomain_data[i].subdomain
              /\ slide4.subdomain_scores[r][1] = subdomain_data[i].domain

\* the sum of the *_Numeric fields that the payload p holds, from field i on
RECURSIVE numeric_sum(_, _)
numeric_sum(p, i) ==
    IF i > 8 THEN 0
    ELSE (IF subdomain_data[i].numeric_field \in DOMAIN p
          THEN p[subdomain_data[i].numeric_field].num ELSE 0)
         + numeric_sum(p, i + 1)

\* C26: the maturity chart highlights exactly one phase bar, the one whose
\* range contains the sum of the *_Numeric fields of the payload; the status
\* bar names that phase and states that sum, and the one bold focus caption
\* has the index of the highlighted bar.
C26_OnePhaseHighlighted ==
    slide4.rendered =>
        /\ slide4.total_score = numeric_sum(payload, 1)
        /\ Cardinality(slide4.highlighted) = 1
        /\ \A i \in slide4.highlighted :
              /\ PhaseRanges[i + 1][1] <= numeric_sum(payload, 1)
              /\ numeric_sum(payload, 1) <= PhaseRanges[i + 1][2]
              /\ slide4.status_name = PhaseRanges[i + 1][3]
        /\ slide4.bold_focus = slide4.highlighted

\* the score of subdomain i as a number: 0 when the field is absent
score_of(p, i) ==
    IF subdomain_data[i].numeric_field \in DOMAIN p
    THEN p[subdomain_data[i].numeric_field].num ELSE 0

\* the entries "<keyword>: <score>" of the subdomains from i on that score 1
\* or 2, each followed by ", " when another one follows
RECURSIVE low_entries(_, _)
low_entries(p, i) ==
    IF i > 8 THEN <<>>
    ELSE IF score_of(p, i) \in {1, 2}
    THEN <<keywords[i][2], ":", " ", IF score_of(p, i) = 1 THEN "1" ELSE "2">>
         \o (IF \E j \in (i + 1)..8 : score_of(p, j) \in {1, 2}
             THEN <<",", " ">> ELSE <<>>)
         \o low_entries(p, i + 1)
    ELSE low_entries(p, i + 1)

\* C27: the text written for {{laagst_scorende_domein}} lists, in the order
\* of the subdomains and joined by ", ", "<keyword>: <score>" for exactly the
\* subdomains whose *_Numeric score is 1 or 2, and is "Geen lage scores" if
\* and only if no subdomain scores 1 or 2.
C27_LowestDomains ==
    slide_replacements.computed =>
        /\ (\E i \in 1..8 : score_of(payload, i) \in {1, 2})
              => text_at(presentation, 8, 1, 1) = low_entries(payload, 1)
        /\ (\A i \in 1..8 : score_of(payload, i) \notin {1, 2})
              <=> text_at(presentation, 8, 1, 1) = <<"Geen lage scores">>

\* C27 witness: five subdomains score 3 and the last three score 2; the text
\* lists the last three.
C27_Witness ==
    /\ slide_replacements.computed
    /\ \A i \in 1..8 : score_of(payload, i) = IF i <= 5 THEN 3 ELSE 2
    /\ text_at(presentation, 8, 1, 1) =
          <<"Leren", ":", " ", "2", ",", " ", "Uitkomsten", ":", " ", "2", ",", " ",
            "Data", ":", " ", "2">>

\* C28: on slide index 3 the text and the maturity chart agree: the total
\* written for {{totaalscore}} is the total that the status bar of the chart
\* states, and the phase written for {{transitiefase_naam}} is the phase
\* that the chart highlights and names.
C28_TextAgreesWithChart ==
    (slide_replacements.computed /\ slide4.rendered) =>
        /\ text_at(presentation, 3, 1, 1) = py_str(Num(slide4.total_score))
        /\ text_at(presentation, 3, 1, 2) = <<slide4.status_name>>

\* C29: a request whose body is not JSON (by its Content-Type, or because
\* the body does not parse) or whose payload is empty is answered 400 and no
\* external call is made; every other request is answered 200 with success
\* = true if the upload succeeded, whatever became of the attach, and 500
\* with success = false otherwise.
C29_Responses ==
    pc = "done" =>
        IF ~is_json \/ ~valid_json \/ payload = EmptyPayload
        THEN /\ response = <<[status |-> 400, success |-> "absent"]>>
             /\ calls = <<>>
        ELSE IF upload_result.success
        THEN response = <<[status |-> 200, success |-> "true"]>>
        ELSE response = <<[status |-> 500, success |-> "false"]>>

\* C30: substitution is not recursive: where a paragraph of slide index 0, 3
\* or 8 held {{organisatie}}, the text written holds the value of
\* Organization as the payload gave it (cleaned), also when that value is
\* itself a token; no later replacement rewrites it.
C30_NotRecursive ==
    (slide_replacements.computed /\ "Organization" \in DOMAIN payload) =>
        \A k \in {0, 3, 8} : k < num_slides =>
            \A j \in 1..Len(template[k + 1].shapes) :
                \A m \in 1..Len(template[k + 1].shapes[j].paragraphs) :
                    contains(text_at(template, k, j, m), organisatie)
                    => contains(text_at(presentation, k, j, m),
                                clean_text(payload["Organization"].str))
====
